---------------------------- MODULE Spec2Model ----------------------------
(***************************************************************************)
(* W-2 analyzer: the field normalisation and quality-scoring pipeline of   *)
(* task3_w2_parser (w2_parser.py, gemini_client.py).                       *)
(*                                                                         *)
(* Python values are tagged records: [t |-> "str", s |-> <<chars>>],       *)
(* [t |-> "num", m |-> mantissa, e |-> fraction digits] (the decimal       *)
(* m / 10^e, normalised), [t |-> "null"], [t |-> "map", kv |-> function],  *)
(* [t |-> "list", items |-> sequence], [t |-> "bool", b |-> BOOLEAN].      *)
(* A Python str is the sequence of its characters.  The top-level dict of  *)
(* a FieldTree is a function from the names of the sections it holds.      *)
(***************************************************************************)
EXTENDS Integers, Sequences, FiniteSets, TLC

VARIABLES
    pc,                 \* position in the operation under way
    test_mode,          \* W2Parser.test_mode
    file,               \* the file behind file_path: [exists, empty, ext]
    ocr_available,      \* module constant OCR_AVAILABLE
    text_content,       \* extracted text: [lead, body, trail] character counts
    extraction_method,  \* label returned with the text
    attempt,            \* loop variable of a collaborator's retry loop
    calls,              \* model.generate_content calls made by the current collaborator
    sleeps,             \* time.sleep(1) calls made by the current collaborator
    response,           \* outcome of the latest generate_content call and its parsing
    parsed,             \* generate_insights: what json.loads made of the response
    extracted_data,     \* blob returned by extract_w2_data (raw FieldTree)
    normalized_data,    \* FieldTree being normalised / after normalisation
    address,            \* result of _get_employee_address
    sent_to_insights,   \* the trees handed to generate_insights, in order
    insights_data,      \* mapping returned by generate_insights
    warnings,           \* _generate_quality_report: warnings
    confidence,         \* _generate_quality_report: confidence
    text_quality,       \* _generate_quality_report: text_quality
    missing_fields,     \* _generate_quality_report: missing_fields
    quality_report,     \* value returned by _generate_quality_report
    result,             \* value returned by process_w2
    error,              \* exception in flight / propagated, "none" if none
    nums,               \* find_price_gap_pair: the list of prices
    price_gap,          \* find_price_gap_pair: the gap k looked for
    best_pair,          \* find_price_gap_pair: the value returned
    query,              \* get_movies: the parameter q
    api_key,            \* get_movies: whether MOVIE_API_KEY is set
    search_requests,    \* get_movies: GETs of the search URL sent
    credits_requests,   \* get_movies: GETs of a credits URL sent
    upstream,           \* get_movies: outcome of the latest search GET
    http_answer         \* get_movies: what the caller is answered

vars == <<pc, test_mode, file, ocr_available, text_content, extraction_method,
          attempt, calls, sleeps, response, parsed, extracted_data, normalized_data, address,
          sent_to_insights, insights_data, warnings, confidence, text_quality,
          missing_fields, quality_report, result, error,
          nums, price_gap, best_pair,
          query, api_key, search_requests, credits_requests, upstream, http_answer>>

---------------------------------------------------------------------------
(* Bounds of the model *)

\* longest string enumerated exhaustively for an identifier (ssn / ein)
MaxIdLen == 5
\* longest string enumerated exhaustively for a monetary field
MaxMoneyLen == 3
\* most whitespace characters placed before / after the body of a text
MaxPad == 1

---------------------------------------------------------------------------
(* Python values *)

Str(s) == [t |-> "str", s |-> s]
Num(m, e) == [t |-> "num", m |-> m, e |-> e]
Null == [t |-> "null"]
Map(f) == [t |-> "map", kv |-> f]
List(items) == [t |-> "list", items |-> items]
Bool(b) == [t |-> "bool", b |-> b]
EmptyDict == [k \in {} |-> Null]

IsStr(v) == v.t = "str"
IsNum(v) == v.t = "num"
IsMap(v) == v.t = "map"

\* bool(v)
Truthy(v) ==
    CASE v.t = "str" -> v.s # <<>>
      [] v.t = "num" -> v.m # 0
      [] v.t = "null" -> FALSE
      [] v.t = "map" -> DOMAIN v.kv # {}
      [] v.t = "list" -> v.items # <<>>
      [] v.t = "bool" -> v.b

\* d.get(k) on a dict d (None when the key is absent)
Get(d, k) == IF k \in DOMAIN d THEN d[k] ELSE Null

\* d[k] = v on a dict d
Put(d, k, v) == [x \in DOMAIN d \cup {k} |-> IF x = k THEN v ELSE d[x]]

\* all sequences over S of length at most n
SeqsUpTo(S, n) == UNION {[1..k -> S] : k \in 0..n}

---------------------------------------------------------------------------
(* Characters and strings *)

Digits == {"0", "1", "2", "3", "4", "5", "6", "7", "8", "9"}

\* re.sub(r'\D', '', s)
OnlyDigits(s) == SelectSeq(s, LAMBDA c : c \in Digits)

\* s[-n:]
LastN(s, n) == IF Len(s) <= n THEN s ELSE SubSeq(s, Len(s) - n + 1, Len(s))

\* str(v) for the values an identifier field holds
PyStr(v) == v.s

\* outcome of a call: normal return of a value, or an exception
Return(v) == [raised |-> FALSE, val |-> v]
Raise(e) == [raised |-> TRUE, exc |-> e]

---------------------------------------------------------------------------
(* W2Parser._mask_sensitive_data *)

MaskPrefix == <<"*", "*", "*", "-", "*", "*", "-">>
MaskSentinel == <<"*", "*", "*", "-", "*", "*", "-", "*", "*", "*", "*">>

\* mutant: keeps the first four digits instead of the last four
MaskedValueFirst4(raw) ==
    LET digits == OnlyDigits(PyStr(raw))
    IN  IF Len(digits) >= 4
        THEN Str(MaskPrefix \o SubSeq(digits, 1, 4))
        ELSE Str(MaskSentinel)

\* the masked replacement of a truthy identifier value
MaskedValue(raw) ==
    LET digits == OnlyDigits(PyStr(raw))
    IN  IF Len(digits) >= 4
        THEN Str(MaskPrefix \o LastN(digits, 4))
        ELSE Str(MaskSentinel)

\* if section in data and data[section].get(key): data[section][key] = masked
MaskField(data, section, key) ==
    IF section \in DOMAIN data /\ Truthy(Get(data[section].kv, key))
    THEN Put(data, section,
             Map(Put(data[section].kv, key, MaskedValue(data[section].kv[key]))))
    ELSE data

\* a section that is present but is no mapping has no .get: AttributeError
mask_sensitive_data(data) ==
    IF "employee" \in DOMAIN data /\ ~IsMap(data["employee"])
    THEN Raise("AttributeError")
    ELSE LET d1 == MaskField(data, "employee", "ssn")
         IN  IF "employer" \in DOMAIN d1 /\ ~IsMap(d1["employer"])
             THEN Raise("AttributeError")
             ELSE Return(MaskField(d1, "employer", "ein"))

---------------------------------------------------------------------------
(* W2Parser._normalize_state_codes *)

UpperLetters == <<"A", "B", "C", "D", "E", "F", "G", "H", "I", "J", "K", "L", "M",
                  "N", "O", "P", "Q", "R", "S", "T", "U", "V", "W", "X", "Y", "Z">>
LowerLetters == <<"a", "b", "c", "d", "e", "f", "g", "h", "i", "j", "k", "l", "m",
                  "n", "o", "p", "q", "r", "s", "t", "u", "v", "w", "x", "y", "z">>
Whitespace == {" ", "\t", "\n"}

LowerChar(c) ==
    IF \E i \in DOMAIN UpperLetters : UpperLetters[i] = c
    THEN LowerLetters[CHOOSE i \in DOMAIN UpperLetters : UpperLetters[i] = c]
    ELSE c

\* s.lower()
Lower(s) == [i \in DOMAIN s |-> LowerChar(s[i])]

RECURSIVE LStrip(_)
LStrip(s) == IF s # <<>> /\ Head(s) \in Whitespace THEN LStrip(Tail(s)) ELSE s

RECURSIVE RStrip(_)
RStrip(s) ==
    IF s # <<>> /\ s[Len(s)] \in Whitespace THEN RStrip(SubSeq(s, 1, Len(s) - 1)) ELSE s

\* s.strip()
Strip(s) == RStrip(LStrip(s))

state_mapping == {
    [key |-> <<"a", "l", "a", "b", "a", "m", "a">>, code |-> <<"A", "L">>],
    [key |-> <<"a", "l">>, code |-> <<"A", "L">>],
    [key |-> <<"a", "l", "a", "s", "k", "a">>, code |-> <<"A", "K">>],
    [key |-> <<"a", "k">>, code |-> <<"A", "K">>],
    [key |-> <<"a", "r", "i", "z", "o", "n", "a">>, code |-> <<"A", "Z">>],
    [key |-> <<"a", "z">>, code |-> <<"A", "Z">>],
    [key |-> <<"a", "r", "k", "a", "n", "s", "a", "s">>, code |-> <<"A", "R">>],
    [key |-> <<"a", "r">>, code |-> <<"A", "R">>],
    [key |-> <<"c", "a", "l", "i", "f", "o", "r", "n", "i", "a">>, code |-> <<"C", "A">>],
    [key |-> <<"c", "a">>, code |-> <<"C", "A">>],
    [key |-> <<"c", "o", "l", "o", "r", "a", "d", "o">>, code |-> <<"C", "O">>],
    [key |-> <<"c", "o">>, code |-> <<"C", "O">>],
    [key |-> <<"c", "o", "n", "n", "e", "c", "t", "i", "c", "u", "t">>, code |-> <<"C", "T">>],
    [key |-> <<"c", "t">>, code |-> <<"C", "T">>],
    [key |-> <<"d", "e", "l", "a", "w", "a", "r", "e">>, code |-> <<"D", "E">>],
    [key |-> <<"d", "e">>, code |-> <<"D", "E">>],
    [key |-> <<"f", "l", "o", "r", "i", "d", "a">>, code |-> <<"F", "L">>],
    [key |-> <<"f", "l">>, code |-> <<"F", "L">>],
    [key |-> <<"g", "e", "o", "r", "g", "i", "a">>, code |-> <<"G", "A">>],
    [key |-> <<"g", "a">>, code |-> <<"G", "A">>],
    [key |-> <<"h", "a", "w", "a", "i", "i">>, code |-> <<"H", "I">>],
    [key |-> <<"h", "i">>, code |-> <<"H", "I">>],
    [key |-> <<"i", "d", "a", "h", "o">>, code |-> <<"I", "D">>],
    [key |-> <<"i", "d">>, code |-> <<"I", "D">>],
    [key |-> <<"i", "l", "l", "i", "n", "o", "i", "s">>, code |-> <<"I", "L">>],
    [key |-> <<"i", "l">>, code |-> <<"I", "L">>],
    [key |-> <<"i", "n", "d", "i", "a", "n", "a">>, code |-> <<"I", "N">>],
    [key |-> <<"i", "n">>, code |-> <<"I", "N">>],
    [key |-> <<"i", "o", "w", "a">>, code |-> <<"I", "A">>],
    [key |-> <<"i", "a">>, code |-> <<"I", "A">>],
    [key |-> <<"k", "a", "n", "s", "a", "s">>, code |-> <<"K", "S">>],
    [key |-> <<"k", "s">>, code |-> <<"K", "S">>],
    [key |-> <<"k", "e", "n", "t", "u", "c", "k", "y">>, code |-> <<"K", "Y">>],
    [key |-> <<"k", "y">>, code |-> <<"K", "Y">>],
    [key |-> <<"l", "o", "u", "i", "s", "i", "a", "n", "a">>, code |-> <<"L", "A">>],
    [key |-> <<"l", "a">>, code |-> <<"L", "A">>],
    [key |-> <<"m", "a", "i", "n", "e">>, code |-> <<"M", "E">>],
    [key |-> <<"m", "e">>, code |-> <<"M", "E">>],
    [key |-> <<"m", "a", "r", "y", "l", "a", "n", "d">>, code |-> <<"M", "D">>],
    [key |-> <<"m", "d">>, code |-> <<"M", "D">>],
    [key |-> <<"m", "a", "s", "s", "a", "c", "h", "u", "s", "e", "t", "t", "s">>, code |-> <<"M", "A">>],
    [key |-> <<"m", "a">>, code |-> <<"M", "A">>],
    [key |-> <<"m", "i", "c", "h", "i", "g", "a", "n">>, code |-> <<"M", "I">>],
    [key |-> <<"m", "i">>, code |-> <<"M", "I">>],
    [key |-> <<"m", "i", "n", "n", "e", "s", "o", "t", "a">>, code |-> <<"M", "N">>],
    [key |-> <<"m", "n">>, code |-> <<"M", "N">>],
    [key |-> <<"m", "i", "s", "s", "i", "s", "s", "i", "p", "p", "i">>, code |-> <<"M", "S">>],
    [key |-> <<"m", "s">>, code |-> <<"M", "S">>],
    [key |-> <<"m", "i", "s", "s", "o", "u", "r", "i">>, code |-> <<"M", "O">>],
    [key |-> <<"m", "o">>, code |-> <<"M", "O">>],
    [key |-> <<"m", "o", "n", "t", "a", "n", "a">>, code |-> <<"M", "T">>],
    [key |-> <<"m", "t">>, code |-> <<"M", "T">>],
    [key |-> <<"n", "e", "b", "r", "a", "s", "k", "a">>, code |-> <<"N", "E">>],
    [key |-> <<"n", "e">>, code |-> <<"N", "E">>],
    [key |-> <<"n", "e", "v", "a", "d", "a">>, code |-> <<"N", "V">>],
    [key |-> <<"n", "v">>, code |-> <<"N", "V">>],
    [key |-> <<"n", "e", "w", " ", "h", "a", "m", "p", "s", "h", "i", "r", "e">>, code |-> <<"N", "H">>],
    [key |-> <<"n", "h">>, code |-> <<"N", "H">>],
    [key |-> <<"n", "e", "w", " ", "j", "e", "r", "s", "e", "y">>, code |-> <<"N", "J">>],
    [key |-> <<"n", "j">>, code |-> <<"N", "J">>],
    [key |-> <<"n", "e", "w", " ", "m", "e", "x", "i", "c", "o">>, code |-> <<"N", "M">>],
    [key |-> <<"n", "m">>, code |-> <<"N", "M">>],
    [key |-> <<"n", "e", "w", " ", "y", "o", "r", "k">>, code |-> <<"N", "Y">>],
    [key |-> <<"n", "y">>, code |-> <<"N", "Y">>],
    [key |-> <<"n", "o", "r", "t", "h", " ", "c", "a", "r", "o", "l", "i", "n", "a">>, code |-> <<"N", "C">>],
    [key |-> <<"n", "c">>, code |-> <<"N", "C">>],
    [key |-> <<"n", "o", "r", "t", "h", " ", "d", "a", "k", "o", "t", "a">>, code |-> <<"N", "D">>],
    [key |-> <<"n", "d">>, code |-> <<"N", "D">>],
    [key |-> <<"o", "h", "i", "o">>, code |-> <<"O", "H">>],
    [key |-> <<"o", "h">>, code |-> <<"O", "H">>],
    [key |-> <<"o", "k", "l", "a", "h", "o", "m", "a">>, code |-> <<"O", "K">>],
    [key |-> <<"o", "k">>, code |-> <<"O", "K">>],
    [key |-> <<"o", "r", "e", "g", "o", "n">>, code |-> <<"O", "R">>],
    [key |-> <<"o", "r">>, code |-> <<"O", "R">>],
    [key |-> <<"p", "e", "n", "n", "s", "y", "l", "v", "a", "n", "i", "a">>, code |-> <<"P", "A">>],
    [key |-> <<"p", "a">>, code |-> <<"P", "A">>],
    [key |-> <<"r", "h", "o", "d", "e", " ", "i", "s", "l", "a", "n", "d">>, code |-> <<"R", "I">>],
    [key |-> <<"r", "i">>, code |-> <<"R", "I">>],
    [key |-> <<"s", "o", "u", "t", "h", " ", "c", "a", "r", "o", "l", "i", "n", "a">>, code |-> <<"S", "C">>],
    [key |-> <<"s", "c">>, code |-> <<"S", "C">>],
    [key |-> <<"s", "o", "u", "t", "h", " ", "d", "a", "k", "o", "t", "a">>, code |-> <<"S", "D">>],
    [key |-> <<"s", "d">>, code |-> <<"S", "D">>],
    [key |-> <<"t", "e", "n", "n", "e", "s", "s", "e", "e">>, code |-> <<"T", "N">>],
    [key |-> <<"t", "n">>, code |-> <<"T", "N">>],
    [key |-> <<"t", "e", "x", "a", "s">>, code |-> <<"T", "X">>],
    [key |-> <<"t", "x">>, code |-> <<"T", "X">>],
    [key |-> <<"u", "t", "a", "h">>, code |-> <<"U", "T">>],
    [key |-> <<"u", "t">>, code |-> <<"U", "T">>],
    [key |-> <<"v", "e", "r", "m", "o", "n", "t">>, code |-> <<"V", "T">>],
    [key |-> <<"v", "t">>, code |-> <<"V", "T">>],
    [key |-> <<"v", "i", "r", "g", "i", "n", "i", "a">>, code |-> <<"V", "A">>],
    [key |-> <<"v", "a">>, code |-> <<"V", "A">>],
    [key |-> <<"w", "a", "s", "h", "i", "n", "g", "t", "o", "n">>, code |-> <<"W", "A">>],
    [key |-> <<"w", "a">>, code |-> <<"W", "A">>],
    [key |-> <<"w", "e", "s", "t", " ", "v", "i", "r", "g", "i", "n", "i", "a">>, code |-> <<"W", "V">>],
    [key |-> <<"w", "v">>, code |-> <<"W", "V">>],
    [key |-> <<"w", "i", "s", "c", "o", "n", "s", "i", "n">>, code |-> <<"W", "I">>],
    [key |-> <<"w", "i">>, code |-> <<"W", "I">>],
    [key |-> <<"w", "y", "o", "m", "i", "n", "g">>, code |-> <<"W", "Y">>],
    [key |-> <<"w", "y">>, code |-> <<"W", "Y">>]
}

\* state.lower().strip() looked up in state_mapping; the value itself on a miss
\* mutant: the value is lower-cased but not stripped before the lookup
NormalizeStateValueUnstripped(state) ==
    IF Truthy(state) /\ IsStr(state)
    THEN LET state_lower == Lower(state.s)
         IN  IF \E p \in state_mapping : p.key = state_lower
             THEN Str((CHOOSE p \in state_mapping : p.key = state_lower).code)
             ELSE state
    ELSE state

NormalizeStateValue(state) ==
    IF Truthy(state) /\ IsStr(state)
    THEN LET state_lower == Strip(Lower(state.s))
         IN  IF \E p \in state_mapping : p.key = state_lower
             THEN Str((CHOOSE p \in state_mapping : p.key = state_lower).code)
             ELSE state
    ELSE state

\* the address-holding section (employee / employer) after its state is normalised
NormalizeSectionState(section) ==
    LET addr == section.kv["address"].kv
        state == IF "state" \in DOMAIN addr THEN addr["state"] ELSE Str(<<>>)
        new == NormalizeStateValue(state)
    IN  IF new # state
        THEN Map(Put(section.kv, "address", Map(Put(addr, "state", new))))
        ELSE section

\* a section / address that is present but is no mapping raises
SectionStateRaises(data, name) ==
    /\ name \in DOMAIN data
    /\ \/ ~IsMap(data[name])
       \/ /\ "address" \in DOMAIN data[name].kv
          /\ ~IsMap(data[name].kv["address"])

NormalizeSection(data, name) ==
    IF name \in DOMAIN data /\ "address" \in DOMAIN data[name].kv
    THEN Put(data, name, NormalizeSectionState(data[name]))
    ELSE data

\* one state_local record after its state is normalised
NormalizeStateData(state_data) ==
    LET state == IF "state" \in DOMAIN state_data.kv
                 THEN state_data.kv["state"] ELSE Str(<<>>)
        new == NormalizeStateValue(state)
    IN  IF new # state THEN Map(Put(state_data.kv, "state", new)) ELSE state_data

StateLocalRaises(data) ==
    /\ "state_local" \in DOMAIN data
    /\ \/ data["state_local"].t # "list"
       \/ \E i \in DOMAIN data["state_local"].items :
              ~IsMap(data["state_local"].items[i])

normalize_state_codes(data) ==
    IF SectionStateRaises(data, "employee") THEN Raise("AttributeError")
    ELSE LET d1 == NormalizeSection(data, "employee")
    IN  IF SectionStateRaises(d1, "employer") THEN Raise("AttributeError")
    ELSE LET d2 == NormalizeSection(d1, "employer")
    IN  IF StateLocalRaises(d2) THEN Raise("TypeError")
    ELSE IF "state_local" \in DOMAIN d2
         THEN Return(Put(d2, "state_local",
                  List([i \in DOMAIN d2["state_local"].items |->
                           NormalizeStateData(d2["state_local"].items[i])])))
         ELSE Return(d2)

---------------------------------------------------------------------------
(* W2Parser._convert_numeric_fields *)

monetary_fields == <<"wages_tips", "federal_income_tax", "social_security_wages",
                     "social_security_tax", "medicare_wages", "medicare_tax",
                     "social_security_tips", "allocated_tips",
                     "dependent_care_benefits", "nonqualified_plans">>
state_monetary_fields == <<"state_wages", "state_income_tax">>

Range(seq) == {seq[i] : i \in DOMAIN seq}

DigitSeq == <<"0", "1", "2", "3", "4", "5", "6", "7", "8", "9">>
DigitValue(c) == (CHOOSE i \in DOMAIN DigitSeq : DigitSeq[i] = c) - 1

\* the natural number written by a sequence of digits
RECURSIVE DigitsToNat(_)
DigitsToNat(ds) ==
    IF ds = <<>> THEN 0
    ELSE 10 * DigitsToNat(SubSeq(ds, 1, Len(ds) - 1)) + DigitValue(ds[Len(ds)])

\* the decimal m / 10^e without trailing fraction zeros
RECURSIVE Normalise(_, _)
Normalise(m, e) ==
    IF e > 0 /\ m % 10 = 0 THEN Normalise(m \div 10, e - 1) ELSE Num(m, e)

\* re.sub(r'[^\d.-]', '', value)
CleanNumeric(s) == SelectSeq(s, LAMBDA c : c \in Digits \cup {".", "-"})

Count(s, c) == Cardinality({i \in DOMAIN s : s[i] = c})

Unsigned(cleaned) ==
    IF cleaned # <<>> /\ Head(cleaned) = "-" THEN Tail(cleaned) ELSE cleaned

\* float(cleaned) returns (rather than raising ValueError): an optional leading
\* '-', then digits with at most one '.', at least one digit
FloatParses(cleaned) ==
    LET body == Unsigned(cleaned)
    IN  /\ Count(body, "-") = 0
        /\ Count(body, ".") <= 1
        /\ OnlyDigits(body) # <<>>

\* float(cleaned), where it parses
ParseFloat(cleaned) ==
    LET body == Unsigned(cleaned)
        frac == IF Count(body, ".") = 0 THEN 0
                ELSE Len(body) - (CHOOSE i \in DOMAIN body : body[i] = ".")
        mag == DigitsToNat(OnlyDigits(body))
    IN  Normalise(IF body # cleaned THEN 0 - mag ELSE mag, frac)

\* mutant: the else of the isinstance test stores None
ConvertValueNullsNonStrings(value) ==
    IF ~Truthy(value) THEN value
    ELSE IF IsStr(value)
         THEN LET cleaned == CleanNumeric(value.s)
              IN  IF cleaned # <<>> /\ cleaned # <<"-">>
                  THEN IF FloatParses(cleaned) THEN ParseFloat(cleaned) ELSE Null
                  ELSE Null
         ELSE Null

\* mutant: a string that float() rejects is left as it is
ConvertValueKeepsMalformed(value) ==
    IF ~Truthy(value) THEN value
    ELSE IF IsStr(value)
         THEN LET cleaned == CleanNumeric(value.s)
              IN  IF cleaned # <<>> /\ cleaned # <<"-">>
                  THEN IF FloatParses(cleaned) THEN ParseFloat(cleaned) ELSE value
                  ELSE Null
         ELSE value

\* the body of the loop for one field holding value
ConvertValue(value) ==
    IF ~Truthy(value) THEN value
    ELSE IF IsStr(value)
         THEN LET cleaned == CleanNumeric(value.s)
              IN  IF cleaned # <<>> /\ cleaned # <<"-">>
                  THEN IF FloatParses(cleaned) THEN ParseFloat(cleaned) ELSE Null
                  ELSE Null
         ELSE value

ConvertFields(d, fields) ==
    [k \in DOMAIN d |-> IF k \in Range(fields) THEN ConvertValue(d[k]) ELSE d[k]]

\* `field in x` / iteration raise TypeError outside the try blocks when the federal
\* section is null or state_local is no list of mappings
ConvertRaises(data) ==
    \/ "federal" \in DOMAIN data /\ ~IsMap(data["federal"])
                                 /\ data["federal"].t # "list"
    \/ StateLocalRaises(data)

convert_numeric_fields(data) ==
    IF ConvertRaises(data) THEN Raise("TypeError")
    ELSE LET d1 == IF "federal" \in DOMAIN data /\ IsMap(data["federal"])
                   THEN Put(data, "federal",
                            Map(ConvertFields(data["federal"].kv, monetary_fields)))
                   ELSE data
         IN  IF "state_local" \in DOMAIN d1
             THEN Return(Put(d1, "state_local",
                      List([i \in DOMAIN d1["state_local"].items |->
                          Map(ConvertFields(d1["state_local"].items[i].kv,
                                            state_monetary_fields))])))
             ELSE Return(d1)

---------------------------------------------------------------------------
(* W2Parser._get_employee_address *)

address_components == <<"street", "city", "state", "zip">>

\* sep.join(parts) for a sequence of strings
RECURSIVE Join(_, _)
Join(parts, sep) ==
    IF parts = <<>> THEN <<>>
    ELSE IF Len(parts) = 1 THEN parts[1]
    ELSE parts[1] \o sep \o Join(Tail(parts), sep)

\* mutant: a component counts when its key is there and is not None
PresentComponentsNotNone(addr) ==
    LET present == SelectSeq(address_components,
                             LAMBDA k : k \in DOMAIN addr /\ addr[k] # Null)
    IN  [i \in DOMAIN present |-> addr[present[i]]]

\* the components appended, in order: those addr.get(name) finds truthy
PresentComponents(addr) ==
    LET present == SelectSeq(address_components, LAMBDA k : Truthy(Get(addr, k)))
    IN  [i \in DOMAIN present |-> addr[present[i]]]

get_employee_address(data) ==
    IF "employee" \in DOMAIN data /\ ~IsMap(data["employee"])
    THEN Raise("TypeError")
    ELSE IF "employee" \in DOMAIN data /\ "address" \in DOMAIN data["employee"].kv
    THEN LET addr == data["employee"].kv["address"]
         IN  IF ~IsMap(addr) THEN Raise("AttributeError")
             ELSE LET components == PresentComponents(addr.kv)
                  IN  IF \E i \in DOMAIN components : ~IsStr(components[i])
                      THEN Raise("TypeError")
                      ELSE Return(Join([i \in DOMAIN components |-> components[i].s],
                                       <<",", " ">>))
    ELSE Return(<<>>)

---------------------------------------------------------------------------
(* W2Parser._generate_quality_report *)

PoorBelow == 50
FairBelow == 200

critical_fields == << <<"employee", "name">>, <<"employee", "ssn">>,
                      <<"federal", "wages_tips">>, <<"federal", "federal_income_tax">> >>

\* mutant: the length is taken without .strip()
StrippedLenUnstripped(text) == text.lead + text.body + text.trail

\* len(extracted_text.strip()): the text is lead whitespace characters, a body
\* that neither starts nor ends with whitespace, and trail whitespace characters
StrippedLen(text) == text.body

\* if missing_fields: confidence = "medium"
ConfidenceAfterMissing(c, missing) == IF missing # <<>> THEN "medium" ELSE c

TextQualityOf(n) ==
    IF n < PoorBelow THEN "poor" ELSE IF n < FairBelow THEN "fair" ELSE "good"

\* mutant: the 'fair' branch forgets to downgrade
ConfidenceAfterTextNoFair(c, n) == IF n < PoorBelow THEN "low" ELSE c

\* the confidence the text-length branches leave
ConfidenceAfterText(c, n) ==
    IF n < PoorBelow THEN "low"
    ELSE IF n < FairBelow THEN (IF c # "low" THEN "medium" ELSE c)
    ELSE c

\* mutant: a falsy value (0, 0.0) counts as missing, like null and ''
PresentValueTruthy(v) == Truthy(v)

\* current[part] not in [None, ""]
PresentValue(v) == v # Null /\ v # Str(<<>>)

\* the walk along the dotted path: found
Found(data, path) ==
    /\ path[1] \in DOMAIN data
    /\ PresentValue(data[path[1]])
    /\ IsMap(data[path[1]])
    /\ path[2] \in DOMAIN data[path[1]].kv
    /\ PresentValue(data[path[1]].kv[path[2]])

MissingFields(data) == SelectSeq(critical_fields, LAMBDA p : ~Found(data, p))

MissingWarning(missing) == [kind |-> "missing_critical_fields", fields |-> missing]
LowTextWarning == [kind |-> "low_text_extraction"]
InconsistencyWarning == [kind |-> "ss_wages_exceed_box1"]

\* a > b for two numbers m / 10^e
NumGT(a, b) == a.m * 10 ^ b.e > b.m * 10 ^ a.e

\* federal = data.get('federal', {}): the mapping the consistency check reads
FederalOf(data) == IF "federal" \in DOMAIN data THEN data["federal"] ELSE Map(EmptyDict)

\* federal.get('wages_tips') and federal.get('social_security_wages')
BothTruthy(federal) ==
    /\ Truthy(Get(federal, "wages_tips"))
    /\ Truthy(Get(federal, "social_security_wages"))

\* the comparison raises TypeError unless both operands are numbers
ConsistencyRaises(data) ==
    \/ ~IsMap(FederalOf(data))
    \/ /\ BothTruthy(FederalOf(data).kv)
       /\ \/ ~IsNum(FederalOf(data).kv["wages_tips"])
          \/ ~IsNum(FederalOf(data).kv["social_security_wages"])

Inconsistent(data) ==
    /\ BothTruthy(FederalOf(data).kv)
    /\ NumGT(FederalOf(data).kv["social_security_wages"],
             FederalOf(data).kv["wages_tips"])

movieVars == <<query, api_key, search_requests, credits_requests, upstream,
               http_answer>>
gapVars == <<nums, price_gap, best_pair>>
envVars == <<test_mode, file, ocr_available>>
textVars == <<text_content, extraction_method>>
retryVars == <<attempt, calls, sleeps, response, parsed>>
dataVars == <<extracted_data, normalized_data>>
insightVars == <<address, sent_to_insights, insights_data>>
qrVars == <<warnings, confidence, text_quality, missing_fields, quality_report>>

\* an exception leaves the function under way
Raising(e) == pc' = "raised" /\ error' = e

\* warnings = []; confidence = "high"
QrEnter ==
    /\ pc = "generate_quality_report"
    /\ warnings' = <<>>
    /\ confidence' = "high"
    /\ pc' = "qr_missing"
    /\ UNCHANGED <<movieVars, gapVars, envVars, textVars, retryVars, dataVars, insightVars,
                   text_quality, missing_fields, quality_report, result, error>>

\* the critical-fields check
QrMissing ==
    /\ pc = "qr_missing"
    /\ missing_fields' = MissingFields(normalized_data)
    /\ warnings' = IF missing_fields' # <<>>
                   THEN Append(warnings, MissingWarning(missing_fields'))
                   ELSE warnings
    /\ confidence' = ConfidenceAfterMissing(confidence, missing_fields')
    /\ pc' = "qr_text"
    /\ UNCHANGED <<movieVars, gapVars, envVars, textVars, retryVars, dataVars, insightVars,
                   text_quality, quality_report, result, error>>

\* the text-extraction-quality check
QrText ==
    /\ pc = "qr_text"
    /\ warnings' = IF StrippedLen(text_content) < PoorBelow
                   THEN Append(warnings, LowTextWarning)
                   ELSE warnings
    /\ text_quality' = TextQualityOf(StrippedLen(text_content))
    /\ confidence' = ConfidenceAfterText(confidence, StrippedLen(text_content))
    /\ pc' = "qr_consistency"
    /\ UNCHANGED <<movieVars, gapVars, envVars, textVars, retryVars, dataVars, insightVars,
                   missing_fields, quality_report, result, error>>

\* the cross-field consistency check
QrConsistency ==
    /\ pc = "qr_consistency"
    /\ IF ConsistencyRaises(normalized_data)
       THEN /\ Raising(IF IsMap(FederalOf(normalized_data))
                       THEN "TypeError" ELSE "AttributeError")
            /\ UNCHANGED warnings
       ELSE /\ warnings' = IF Inconsistent(normalized_data)
                           THEN Append(warnings, InconsistencyWarning)
                           ELSE warnings
            /\ pc' = "qr_return"
            /\ error' = error
    /\ UNCHANGED <<movieVars, gapVars, envVars, textVars, retryVars, dataVars, insightVars,
                   confidence, text_quality, missing_fields, quality_report, result>>

\* return {...}
QrReturn ==
    /\ pc = "qr_return"
    /\ quality_report' = [confidence |-> confidence,
                          warnings |-> warnings,
                          text_quality |-> text_quality,
                          extraction_method |-> extraction_method,
                          text_length |-> StrippedLen(text_content),
                          critical_fields_missing |-> Len(missing_fields)]
    /\ pc' = "qr_done"
    /\ UNCHANGED <<movieVars, gapVars, envVars, textVars, retryVars, dataVars, insightVars,
                   warnings, confidence, text_quality, missing_fields, result, error>>

---------------------------------------------------------------------------
(* Inputs *)

\* marks a key left out of a dict built by Dict
Absent == [t |-> "absent"]
Dict(f) == [k \in {x \in DOMAIN f : f[x] # Absent} |-> f[k]]

\* data[section][key], or Absent when the section or the key is not there
FieldOf(data, section, key) ==
    IF section \in DOMAIN data /\ IsMap(data[section])
                              /\ key \in DOMAIN data[section].kv
    THEN data[section].kv[key]
    ELSE Absent

NoFile == [exists |-> FALSE, empty |-> FALSE, ext |-> "none"]
NoText == [lead |-> 0, body |-> 0, trail |-> 0]

\* text lengths on both sides of the two thresholds, and the length 10
TextBodies == {0, 10, PoorBelow - 1, PoorBelow, FairBelow - 1, FairBelow}
Texts == {[lead |-> l, body |-> b, trail |-> t] :
              l \in 0..MaxPad, b \in TextBodies, t \in 0..MaxPad}

MaskedExample == Str(MaskPrefix \o <<"6", "7", "8", "9">>)

\* normalised trees handed to _generate_quality_report
QualityEmployees ==
    {Absent} \cup
    {Map(Dict([name |-> n, ssn |-> i])) :
        n \in {Absent, Str(<<>>), Str(<<"J">>)},
        i \in {Absent, Null, MaskedExample}}
QualityFederals ==
    {Absent, List(<<>>)} \cup
    {Map(Dict([wages_tips |-> w, federal_income_tax |-> x,
               social_security_wages |-> ss])) :
        w \in {Absent, Null, Str(<<>>), Num(0, 0), Num(5, 0),
               Map([amount |-> Num(5, 0)])},
        x \in {Absent, Num(1, 0)},
        ss \in {Absent, Num(0, 0), Num(3, 0), Num(75, 1)}}
QualityTrees ==
    {Dict([employee |-> emp, federal |-> fed]) :
        emp \in QualityEmployees, fed \in QualityFederals}

MovieIdle ==
    /\ query = Null /\ api_key = FALSE
    /\ search_requests = 0 /\ credits_requests = 0
    /\ upstream = <<>> /\ http_answer = Null
GapIdle == nums = <<>> /\ price_gap = 0 /\ best_pair = Null
EnvIdle == test_mode = FALSE /\ file = NoFile /\ ocr_available = FALSE
RetryIdle ==
    /\ attempt = 0 /\ calls = 0 /\ sleeps = 0
    /\ response = "none" /\ parsed = Null
InsightIdle == address = <<>> /\ sent_to_insights = <<>> /\ insights_data = EmptyDict
QrIdle ==
    /\ warnings = <<>>
    /\ confidence = "unset"
    /\ text_quality = "unset"
    /\ missing_fields = <<>>
    /\ quality_report = EmptyDict

---------------------------------------------------------------------------
(* _mask_sensitive_data on its own *)

SsnExample == <<"1", "2", "3", "-", "4", "5", "-", "6", "7", "8", "9">>
EinExample == <<"1", "2", "-", "3", "4", "5", "6", "7", "8", "9">>

IdAlphabet == {"1", "2", "-"}
IdStrings ==
    {Str(s) : s \in SeqsUpTo(IdAlphabet, MaxIdLen)}
        \cup {Str(SsnExample), Str(EinExample), MaskedExample}
FewIdOptions == {Absent, Str(<<>>), Str(<<"1", "2">>), Str(EinExample)}
IdOptions == {Absent, Null} \cup IdStrings \cup FewIdOptions

\* every identifier in one field against a few in the other
IdPairs ==
    {<<i, j>> : i \in IdOptions, j \in FewIdOptions}
        \cup {<<i, j>> : i \in FewIdOptions, j \in IdOptions}

MaskTrees ==
    {Dict([employee |-> Map(Dict([name |-> Str(<<"J">>), ssn |-> p[1]])),
           employer |-> Map(Dict([ein |-> p[2]]))]) : p \in IdPairs}
    \cup {Dict([employee |-> Absent, employer |-> Map(Dict([ein |-> j]))]) :
              j \in FewIdOptions}
    \cup {Dict([employee |-> Map(Dict([ssn |-> i])), employer |-> Absent]) :
              i \in FewIdOptions}
    \cup {Dict([employee |-> Null, employer |-> Absent])}

InitMask ==
    /\ pc = "mask_sensitive_data"
    /\ extracted_data \in MaskTrees
    /\ normalized_data = extracted_data
    /\ text_content = NoText
    /\ extraction_method = "none"
    /\ EnvIdle /\ RetryIdle /\ InsightIdle /\ QrIdle /\ GapIdle /\ MovieIdle
    /\ result = EmptyDict
    /\ error = "none"

\* self._mask_sensitive_data(data), data mutated in place
MaskSensitiveData ==
    /\ pc = "mask_sensitive_data"
    /\ LET r == mask_sensitive_data(normalized_data)
       IN  IF r.raised
           THEN Raising(r.exc) /\ UNCHANGED normalized_data
           ELSE /\ normalized_data' = r.val
                /\ pc' = "masked"
                /\ error' = error
    /\ UNCHANGED <<movieVars, gapVars, envVars, textVars, retryVars, extracted_data, insightVars,
                   qrVars, result>>

NextMask == MaskSensitiveData

SpecMask == InitMask /\ [][NextMask]_vars

---------------------------------------------------------------------------
(* _convert_numeric_fields on its own *)

MoneyAlphabet == {"0", "1", ".", "-", "$"}
MoneyExamples ==
    { <<"$", "7", "5", ",", "0", "0", "0", ".", "0", "0">>,
      <<"1", "5", "0", "0", "0">>,
      <<"1", ".", "2", ".", "3">>,
      <<"-", "-", "5">>,
      <<"1", "-", "2">>,
      <<"n", "/", "a">> }
MoneyValues ==
    {Str(s) : s \in SeqsUpTo(MoneyAlphabet, MaxMoneyLen) \cup MoneyExamples}
        \cup {Null, Num(0, 0), Num(75000, 0), Num(10875, 1)}

NumericTrees ==
    {[federal |-> Map(Put([note |-> Str(<<"$", "1">>)], f, v)),
      state_local |-> List(<<Map([state |-> Str(<<"N", "Y">>),
                                  state_wages |-> Str(<<"1", "5", "0", "0", "0">>)])>>)] :
        f \in Range(monetary_fields), v \in MoneyValues}
    \cup
    {[federal |-> Map([wages_tips |-> Num(75000, 0)]),
      state_local |-> List(<<Map([state |-> Str(<<"N", "Y">>)]),
                             Map(Put([employer_state_id |-> Str(<<"1">>)], f, v))>>)] :
        f \in Range(state_monetary_fields), v \in MoneyValues}

InitNumeric ==
    /\ pc = "convert_numeric_fields"
    /\ extracted_data \in NumericTrees
    /\ normalized_data = extracted_data
    /\ text_content = NoText
    /\ extraction_method = "none"
    /\ EnvIdle /\ RetryIdle /\ InsightIdle /\ QrIdle /\ GapIdle /\ MovieIdle
    /\ result = EmptyDict
    /\ error = "none"

\* self._convert_numeric_fields(data), data mutated in place
ConvertNumericFields ==
    /\ pc = "convert_numeric_fields"
    /\ LET r == convert_numeric_fields(normalized_data)
       IN  IF r.raised
           THEN Raising(r.exc) /\ UNCHANGED normalized_data
           ELSE /\ normalized_data' = r.val
                /\ pc' = "converted"
                /\ error' = error
    /\ UNCHANGED <<movieVars, gapVars, envVars, textVars, retryVars, extracted_data, insightVars,
                   qrVars, result>>

NextNumeric == ConvertNumericFields

SpecNumeric == InitNumeric /\ [][NextNumeric]_vars

---------------------------------------------------------------------------
(* _generate_quality_report on its own *)

InitQuality ==
    /\ pc = "generate_quality_report"
    /\ normalized_data \in QualityTrees
    /\ extracted_data = EmptyDict
    /\ text_content \in Texts
    /\ extraction_method = "ocr"
    /\ EnvIdle /\ RetryIdle /\ InsightIdle /\ QrIdle /\ GapIdle /\ MovieIdle
    /\ result = EmptyDict
    /\ error = "none"

NextQuality == QrEnter \/ QrMissing \/ QrText \/ QrConsistency \/ QrReturn

SpecQuality == InitQuality /\ [][NextQuality]_vars

---------------------------------------------------------------------------
(* Properties of _generate_quality_report, checked under SpecQuality *)

Rank(c) == CASE c = "low" -> 0 [] c = "medium" -> 1 [] c = "high" -> 2

\* the length of the text once its leading and trailing whitespace is removed
TrimmedLength ==
    (text_content.lead + text_content.body + text_content.trail)
        - text_content.lead - text_content.trail

\* a segment of a dotted path is there and holds neither null nor ''
SegmentPresent(d, k) == k \in DOMAIN d /\ d[k] # Null /\ d[k] # Str(<<>>)

CriticalMissing(data, path) ==
    ~ /\ SegmentPresent(data, path[1])
      /\ IsMap(data[path[1]])
      /\ SegmentPresent(data[path[1]].kv, path[2])

MissingPaths == SelectSeq(critical_fields, LAMBDA p : CriticalMissing(normalized_data, p))

InReport == {"qr_missing", "qr_text", "qr_consistency", "qr_return"}

CountKind(ws, kind) == Cardinality({i \in DOMAIN ws : ws[i].kind = kind})

NeverUpgraded == pc \in InReport => Rank(confidence') <= Rank(confidence)

TextStepEffect ==
    pc = "qr_text" =>
        /\ TrimmedLength < 50 =>
              /\ text_quality' = "poor"
              /\ warnings' = Append(warnings, LowTextWarning)
              /\ confidence' = "low"
        /\ (TrimmedLength >= 50 /\ TrimmedLength < 200) =>
              /\ text_quality' = "fair"
              /\ warnings' = warnings
              /\ confidence' = IF confidence = "low" THEN "low" ELSE "medium"
        /\ TrimmedLength >= 200 =>
              /\ text_quality' = "good"
              /\ warnings' = warnings
              /\ confidence' = confidence

\* C6: confidence starts at 'high'; the final tier is 'low' exactly when the
\* trimmed text is shorter than 50, 'medium' when it is at least 50 long and a
\* critical field is missing or it is shorter than 200, 'high' otherwise; and no
\* step of the report raises the tier.
C6_ConfidenceTier ==
    /\ [](pc = "qr_missing" => confidence = "high")
    /\ [](pc = "qr_done" =>
            quality_report.confidence =
                IF TrimmedLength < 50 THEN "low"
                ELSE IF MissingPaths # <<>> \/ TrimmedLength < 200 THEN "medium"
                ELSE "high")
    /\ [][NeverUpgraded]_vars

\* both downgrade conditions together: a missing critical field and a short text
C6_Witness ==
    /\ pc = "qr_done"
    /\ quality_report.confidence = "low"
    /\ quality_report.critical_fields_missing > 0
    /\ quality_report.text_length < 50

\* C7: a critical path is missing exactly when a segment is absent or holds null
\* or ''; critical_fields_missing counts the missing paths; when there are any,
\* one warning names them all in the fixed order and confidence is at most medium.
C7_MissingCriticalFields ==
    pc = "qr_done" =>
        /\ missing_fields = MissingPaths
        /\ quality_report.critical_fields_missing = Len(MissingPaths)
        /\ CountKind(quality_report.warnings, "missing_critical_fields")
               = IF MissingPaths # <<>> THEN 1 ELSE 0
        /\ MissingPaths # <<>> =>
               /\ quality_report.warnings[1] = MissingWarning(MissingPaths)
               /\ quality_report.confidence \in {"medium", "low"}

\* scenario 5: employee.ssn and federal.wages_tips missing, the others present
C7_Witness ==
    /\ pc = "qr_done"
    /\ quality_report.critical_fields_missing = 2
    /\ missing_fields = << <<"employee", "ssn">>, <<"federal", "wages_tips">> >>
    /\ quality_report.warnings[1].fields = missing_fields

\* C8: text_length is the trimmed length; below 50 the text is 'poor', the
\* low-extraction warning is appended and confidence becomes 'low'; from 50 and
\* below 200 it is 'fair', no warning, confidence 'medium' unless already 'low';
\* from 200 it is 'good', no warning, confidence unchanged.
C8_TextQuality ==
    /\ [][TextStepEffect]_vars
    /\ [](pc = "qr_done" =>
            /\ quality_report.text_length = TrimmedLength
            /\ quality_report.text_quality = text_quality
            /\ quality_report.warnings = warnings
            /\ quality_report.confidence = confidence)

\* scenario 4: a text of trimmed length 10 inside surrounding whitespace
C8_Witness ==
    /\ pc = "qr_done"
    /\ text_content.lead > 0
    /\ quality_report.text_length = 10
    /\ quality_report.text_quality = "poor"
    /\ quality_report.confidence = "low"
    /\ CountKind(quality_report.warnings, "low_text_extraction") = 1

\* a monetary field is present: the key is there and holds a number
PresentNumber(d, k) == k \in DOMAIN d /\ IsNum(d[k])

\* C9: the inconsistency warning is appended, as the last warning, exactly when
\* wages_tips and social_security_wages are both present (a value of zero
\* included) and social_security_wages is greater than wages_tips.
C9_InconsistencyWarning ==
    pc = "qr_done" =>
        LET federal == FederalOf(normalized_data).kv
            exceeds ==
                /\ PresentNumber(federal, "wages_tips")
                /\ PresentNumber(federal, "social_security_wages")
                /\ NumGT(federal["social_security_wages"], federal["wages_tips"])
            ws == quality_report.warnings
        IN  IF exceeds
            THEN /\ CountKind(ws, "ss_wages_exceed_box1") = 1
                 /\ ws[Len(ws)] = InconsistencyWarning
            ELSE CountKind(ws, "ss_wages_exceed_box1") = 0

---------------------------------------------------------------------------
(* Properties of _mask_sensitive_data, checked under SpecMask *)

\* '***-**-' and the last four digits of raw, or the sentinel under four digits
ExpectedMask(raw) ==
    LET digits == SelectSeq(raw, LAMBDA c : c \in Digits)
    IN  IF Len(digits) >= 4
        THEN <<"*", "*", "*", "-", "*", "*", "-">>
                 \o SubSeq(digits, Len(digits) - 3, Len(digits))
        ELSE <<"*", "*", "*", "-", "*", "*", "-", "*", "*", "*", "*">>

\* the identifier key of section is masked in out, everything else is as in raw
MaskedAsClaimed(raw, out, section, key) ==
    IF section \notin DOMAIN raw THEN section \notin DOMAIN out
    ELSE /\ section \in DOMAIN out
         /\ DOMAIN out[section].kv = DOMAIN raw[section].kv
         /\ \A k \in DOMAIN raw[section].kv \ {key} :
                out[section].kv[k] = raw[section].kv[k]
         /\ key \in DOMAIN raw[section].kv =>
                LET v == raw[section].kv[key]
                IN  IF v = Null \/ v = Str(<<>>)
                    THEN out[section].kv[key] = v
                    ELSE out[section].kv[key] = Str(ExpectedMask(v.s))

\* C1: employee.ssn and employer.ein become '***-**-' plus the last 4 digits when
\* the raw value holds at least 4 digits and '***-**-****' otherwise; an absent,
\* null or empty field is left untouched and no key is created.
C1_Masking ==
    pc = "masked" =>
        /\ DOMAIN normalized_data = DOMAIN extracted_data
        /\ MaskedAsClaimed(extracted_data, normalized_data, "employee", "ssn")
        /\ MaskedAsClaimed(extracted_data, normalized_data, "employer", "ein")

\* the test's SSN masked to its last four digits beside an EIN of two digits
C1_Witness ==
    /\ pc = "masked"
    /\ FieldOf(extracted_data, "employee", "ssn") = Str(SsnExample)
    /\ FieldOf(normalized_data, "employee", "ssn") = MaskedExample
    /\ FieldOf(extracted_data, "employer", "ein") = Str(<<"1", "2">>)
    /\ FieldOf(normalized_data, "employer", "ein") = Str(MaskSentinel)

---------------------------------------------------------------------------
(* Properties of _convert_numeric_fields, checked under SpecNumeric *)

\* a raw string becomes the number its cleaned form parses to, or null when the
\* cleaned form is '' or '-'
CoercedAsClaimed(raw, out) ==
    IsStr(raw) =>
        LET cleaned == CleanNumeric(raw.s)
        IN  IF cleaned # <<>> /\ cleaned # <<"-">>
            THEN FloatParses(cleaned) => out = ParseFloat(cleaned)
            ELSE out = Null

\* C10: every monetary field holding a string (the empty string included) is
\* replaced by the number its cleaned form parses to, or by null when the cleaned
\* form is '' or '-'.
C10_NumericCoercion ==
    pc = "converted" =>
        /\ \A f \in Range(monetary_fields) \cap DOMAIN extracted_data["federal"].kv :
               CoercedAsClaimed(extracted_data["federal"].kv[f],
                                normalized_data["federal"].kv[f])
        /\ \A i \in DOMAIN extracted_data["state_local"].items :
               \A f \in Range(state_monetary_fields)
                           \cap DOMAIN extracted_data["state_local"].items[i].kv :
                   CoercedAsClaimed(extracted_data["state_local"].items[i].kv[f],
                                    normalized_data["state_local"].items[i].kv[f])

---------------------------------------------------------------------------
(* W2Parser._process_test_mode *)

\* one insight line: the bullet, then msg and detail
Insight(msg, detail) == [msg |-> msg, detail |-> detail]

TestModeFields == [
    employee |-> Map([
        name |-> Str(<<"J", "o", "h", "n", " ", "A", ".", " ", "D", "o", "e">>),
        address |-> Map([
            street |-> Str(<<"1", "2", "3", " ", "M", "a", "i", "n", " ", "S", "t", "r", "e", "e", "t">>),
            city |-> Str(<<"N", "e", "w", " ", "Y", "o", "r", "k">>),
            state |-> Str(<<"N", "Y">>),
            zip |-> Str(<<"1", "0", "0", "0", "1">>)]),
        ssn |-> Str(<<"*", "*", "*", "-", "*", "*", "-", "1", "2", "3", "4">>)]),
    employer |-> Map([
        name |-> Str(<<"T", "e", "c", "h", " ", "S", "o", "l", "u", "t", "i", "o", "n", "s", " ", "I", "n", "c", ".">>),
        address |-> Map([
            street |-> Str(<<"4", "5", "6", " ", "B", "u", "s", "i", "n", "e", "s", "s", " ", "A", "v", "e", "n", "u", "e">>),
            city |-> Str(<<"N", "e", "w", " ", "Y", "o", "r", "k">>),
            state |-> Str(<<"N", "Y">>),
            zip |-> Str(<<"1", "0", "0", "0", "2">>)]),
        ein |-> Str(<<"*", "*", "*", "-", "*", "*", "-", "5", "6", "7", "8">>),
        state_id |-> Str(<<"N", "Y", "-", "1", "2", "3", "4", "5", "6", "7", "8", "9">>)]),
    federal |-> Map([
        wages_tips |-> Num(75000, 0),
        federal_income_tax |-> Num(15000, 0),
        social_security_wages |-> Num(75000, 0),
        social_security_tax |-> Num(4650, 0),
        medicare_wages |-> Num(75000, 0),
        medicare_tax |-> Num(10875, 1),
        social_security_tips |-> Num(0, 0),
        allocated_tips |-> Num(0, 0),
        dependent_care_benefits |-> Num(0, 0),
        nonqualified_plans |-> Num(0, 0)]),
    state_local |-> List(<<Map([
            state |-> Str(<<"N", "Y">>),
            employer_state_id |-> Str(<<"N", "Y", "-", "1", "2", "3", "4", "5", "6", "7", "8", "9">>),
            state_wages |-> Num(75000, 0),
            state_income_tax |-> Num(4500, 0)])>>),
    other_boxes |-> Map([
        box_12 |-> Map([
            D |-> Num(5000, 0)]),
        box_13 |-> Map([
            statutory_employee |-> Bool(FALSE),
            retirement_plan |-> Bool(TRUE),
            third_party_sick_pay |-> Bool(FALSE)]),
        box_14 |-> Map([
            other_info |-> Str(<<"P", "r", "o", "f", "e", "s", "s", "i", "o", "n", "a", "l", " ", "d", "u", "e", "s", ":", " ", "3", "0", "0", ".", "0", "0">>)])])]

process_test_mode ==
    [fields |-> TestModeFields,
     insights |-> List(<<
         Insight("Test mode: Using simulated W-2 data", ""),
         Insight("Address validation: ZIP code 10001 corresponds to NY state, matches employer state", ""),
         Insight("Federal withholding at 20.0% of Box 1 wages ($15,000 / $75,000)", ""),
         Insight("Social Security wages below annual limit of $160,200 for 2023", ""),
         Insight("Single state income reported for New York with $4,500 state tax withheld", ""),
         Insight("All critical W-2 boxes present and consistent", ""),
         Insight("Retirement plan participation indicated in Box 13", "")>>),
     quality |-> [confidence |-> "high",
                  warnings |-> <<[kind |-> "test_mode"]>>,
                  text_quality |-> "good",
                  extraction_method |-> "test_mode",
                  text_length |-> 0,
                  critical_fields_missing |-> 0]]

---------------------------------------------------------------------------
(* W2Parser._extract_text_from_file and its helpers *)

PdfOcrBelow == 100

Extensions == {".pdf", ".png", ".txt", ".doc"}
Files == {[exists |-> x, empty |-> m, ext |-> e] :
              x \in BOOLEAN, m \in BOOLEAN, e \in Extensions}

PdfNeedsOcrText == [lead |-> 0, body |-> 46, trail |-> 0]
ImageNeedsOcrText == [lead |-> 0, body |-> 45, trail |-> 0]

\* _ocr_pdf: a fixed placeholder text
ocr_pdf == [lead |-> 0, body |-> 59, trail |-> 0]

\* what a read of the file's content can yield: nothing for an empty file
ContentsOf(f) == IF f.empty THEN {NoText} ELSE Texts

\* the outcomes of _extract_text_from_pdf: <<text, method>>
extract_text_from_pdf(f, ocr) ==
    IF ~ocr THEN {Return(<<PdfNeedsOcrText, "failed">>)}
    ELSE {IF StrippedLen(t) < PdfOcrBelow
          THEN Return(<<ocr_pdf, "ocr">>)
          ELSE Return(<<t, "direct_extraction">>) : t \in ContentsOf(f)}
         \cup {Return(<<ocr_pdf, "ocr_fallback">>)}

\* the outcomes of _extract_text_from_image
extract_text_from_image(f, ocr) ==
    IF ~ocr THEN {Return(<<ImageNeedsOcrText, "failed">>)}
    ELSE {Return(<<t, "ocr">>) : t \in {x \in ContentsOf(f) : ~f.empty}}
         \cup {Raise("Exception: OCR failed")}

\* the outcomes of _extract_text_from_file
extract_text_from_file(f, ocr) ==
    IF ~f.exists THEN {Raise("FileNotFoundError")}
    ELSE IF f.ext = ".pdf" THEN extract_text_from_pdf(f, ocr)
    ELSE IF f.ext = ".png" THEN extract_text_from_image(f, ocr)
    ELSE IF f.ext = ".txt"
         THEN {Return(<<t, "direct_text">>) : t \in ContentsOf(f)}
                  \cup {Raise("UnicodeDecodeError")}
    ELSE {Raise("ValueError: Unsupported file format")}

---------------------------------------------------------------------------
(* W2Parser._normalize_data *)

\* the five sections, each defaulted when the blob lacks it
WithSections(data) ==
    [employee |-> IF "employee" \in DOMAIN data THEN data["employee"]
                  ELSE Map(EmptyDict),
     employer |-> IF "employer" \in DOMAIN data THEN data["employer"]
                  ELSE Map(EmptyDict),
     federal |-> IF "federal" \in DOMAIN data THEN data["federal"]
                 ELSE Map(EmptyDict),
     state_local |-> IF "state_local" \in DOMAIN data
                     THEN data["state_local"] ELSE List(<<>>),
     other_boxes |-> IF "other_boxes" \in DOMAIN data
                     THEN data["other_boxes"] ELSE Map(EmptyDict)]

\* mutant: the masking call is left out
normalize_data_unmasked(data) ==
    IF DOMAIN data = {} THEN Return(EmptyDict)
    ELSE LET stated == normalize_state_codes(WithSections(data))
         IN  IF stated.raised THEN stated ELSE convert_numeric_fields(stated.val)

\* `if not data: return {}`, then the three in-place passes in order
normalize_data(data) ==
    IF DOMAIN data = {} THEN Return(EmptyDict)
    ELSE LET normalized == WithSections(data)
             masked == mask_sensitive_data(normalized)
         IN  IF masked.raised THEN masked
             ELSE LET stated == normalize_state_codes(masked.val)
                  IN  IF stated.raised THEN stated
                      ELSE convert_numeric_fields(stated.val)

---------------------------------------------------------------------------
(* GeminiClient: what the hosted model can answer *)

max_retries == 3

\* blobs the structured-extraction call can parse out of a response
BaseEmployee ==
    [name |-> Str(<<"J">>),
     ssn |-> Str(SsnExample),
     address |-> Map([street |-> Str(<<"1", " ", "M">>), city |-> Str(<<"A">>),
                      state |-> Str(<<"n", "y">>), zip |-> Str(<<"1", "0">>)])]
BaseEmployer ==
    [name |-> Str(<<"T">>),
     ein |-> Str(EinExample),
     address |-> Map([state |-> Str(<<"c", "a", "l", "i", "f", "o", "r", "n", "i", "a">>)])]
BaseFederal ==
    [wages_tips |-> Str(<<"$", "7", "5", ",", "0", "0", "0", ".", "0", "0">>),
     federal_income_tax |-> Str(<<"1", "5", "0", "0", "0">>),
     social_security_wages |-> Num(75000, 0)]
BaseBlob ==
    [employee |-> Map(BaseEmployee),
     employer |-> Map(BaseEmployer),
     federal |-> Map(BaseFederal),
     state_local |-> List(<<Map([state |-> Str(<<"t", "x">>),
                                 state_wages |-> Str(<<"1", "5", "0", "0", "0">>)])>>),
     other_boxes |-> Map([box_12 |-> Map([D |-> Num(5000, 0)])])]

\* BaseBlob with data[section][key] set to v, or removed when v is Absent
WithField(section, key, v) ==
    Put(BaseBlob, section,
        Map(Dict(Put(BaseBlob[section].kv, key, v))))

PipelineIds ==
    {Absent, Null, Str(<<>>), Str(<<"1", "2">>), Str(<<"1", "2", "2", "2", "2">>),
     MaskedExample}

Blobs ==
    {EmptyDict, BaseBlob, [employee |-> Map(BaseEmployee)]}
    \cup {WithField("employee", "ssn", i) : i \in PipelineIds}
    \cup {WithField("employer", "ein", i) : i \in PipelineIds}
    \cup {WithField("employee", "name", Absent),
          Put(BaseBlob, "employee", Null),
          WithField("employee", "address",
                    Map([city |-> Str(<<"A">>), zip |-> Num(10001, 0)])),
          Put(BaseBlob, "federal", List(<<>>))}
    \cup {WithField("federal", "wages_tips", w) :
              w \in {Absent, Str(<<>>), Str(<<"-">>), Num(0, 0),
                     Map([amount |-> Num(5, 0)])}}

\* what one generate_content call of extract_w2_data comes to
ExtractAnswers ==
    {[kind |-> "json", data |-> b] : b \in Blobs}
        \cup {[kind |-> "JSONDecodeError"], [kind |-> "Exception"]}

\* JSON objects the insight call can parse out of a response
InsightPayloads ==
    {[insights |-> List(<<>>)],
     [insights |-> List(<<Insight("i1", ""), Insight("i2", "")>>),
      summary |-> Str(<<"s">>)],
     [insights |-> Str(<<"i", "1">>)],
     EmptyDict}

InsightAnswers ==
    {[kind |-> "json", data |-> x] : x \in InsightPayloads}
        \cup {[kind |-> "JSONDecodeError"], [kind |-> "Exception"]}

---------------------------------------------------------------------------
(* W2Parser.process_w2 *)

\* the exceptions the steps raise, all subclasses of Exception
ExceptionClasses ==
    {"FileNotFoundError", "ValueError: Unsupported file format", "UnicodeDecodeError",
     "Exception: OCR failed", "Exception: Gemini extraction failed",
     "AttributeError", "TypeError"}

\* mutant: only the input errors are caught
CaughtInputErrorsOnly(e) ==
    e \in {"FileNotFoundError", "ValueError: Unsupported file format"}

\* `except Exception as e` catches e
Caught(e) == e \in ExceptionClasses

\* the result built by the except branch
DegradedResult(e) ==
    [fields |-> EmptyDict,
     insights |-> List(<<Insight("Processing error: ", e)>>),
     quality |-> [confidence |-> "low",
                  warnings |-> <<[kind |-> "processing_failed", detail |-> e]>>,
                  ocr_quality |-> "unknown",
                  extraction_method |-> "failed"]]

Init ==
    /\ pc = "process_w2"
    /\ test_mode \in BOOLEAN
    /\ file \in Files
    /\ ocr_available \in BOOLEAN
    /\ text_content = NoText
    /\ extraction_method = "none"
    /\ extracted_data = EmptyDict
    /\ normalized_data = EmptyDict
    /\ RetryIdle /\ InsightIdle /\ QrIdle /\ GapIdle /\ MovieIdle
    /\ result = EmptyDict
    /\ error = "none"

\* if self.test_mode: return self._process_test_mode()
ProcessW2 ==
    /\ pc = "process_w2"
    /\ IF test_mode
       THEN result' = process_test_mode /\ pc' = "returned"
       ELSE result' = result /\ pc' = "extract_text_from_file"
    /\ UNCHANGED <<movieVars, gapVars, envVars, textVars, retryVars, dataVars, insightVars, qrVars, error>>

\* Step 1
ExtractTextFromFile ==
    /\ pc = "extract_text_from_file"
    /\ \E r \in extract_text_from_file(file, ocr_available) :
           IF r.raised
           THEN Raising(r.exc) /\ UNCHANGED textVars
           ELSE /\ text_content' = r.val[1]
                /\ extraction_method' = r.val[2]
                /\ pc' = "extract_w2_data"
                /\ error' = error
    /\ UNCHANGED <<movieVars, gapVars, envVars, retryVars, dataVars, insightVars, qrVars, result>>

\* Step 2: GeminiClient.extract_w2_data, up to the retry loop
ExtractW2DataEnter ==
    /\ pc = "extract_w2_data"
    /\ attempt' = 0 /\ calls' = 0 /\ sleeps' = 0
    /\ response' = "none" /\ parsed' = Null
    /\ pc' = "extract_attempt"
    /\ UNCHANGED <<movieVars, gapVars, envVars, textVars, dataVars, insightVars, qrVars, result, error>>

\* mutant: a failed attempt is retried at once, without time.sleep(1)
ExtractAttemptNoSleep ==
    /\ pc = "extract_attempt"
    /\ calls' = calls + 1
    /\ \E answer \in ExtractAnswers :
           /\ response' = answer.kind
           /\ IF answer.kind = "json"
              THEN /\ extracted_data' = answer.data
                   /\ pc' = "normalize_data"
                   /\ UNCHANGED <<attempt, sleeps, error>>
              ELSE IF attempt < max_retries - 1
              THEN /\ attempt' = attempt + 1
                   /\ UNCHANGED <<pc, sleeps, extracted_data, error>>
              ELSE /\ Raising("Exception: Gemini extraction failed")
                   /\ UNCHANGED <<attempt, sleeps, extracted_data>>
    /\ UNCHANGED <<movieVars, gapVars, envVars, textVars, parsed, normalized_data, insightVars, qrVars,
                   result>>

\* one pass of extract_w2_data's retry loop
ExtractAttempt ==
    /\ pc = "extract_attempt"
    /\ calls' = calls + 1
    /\ \E answer \in ExtractAnswers :
           /\ response' = answer.kind
           /\ IF answer.kind = "json"
              THEN /\ extracted_data' = answer.data
                   /\ pc' = "normalize_data"
                   /\ UNCHANGED <<attempt, sleeps, error>>
              ELSE IF attempt < max_retries - 1
              THEN /\ sleeps' = sleeps + 1
                   /\ attempt' = attempt + 1
                   /\ UNCHANGED <<pc, extracted_data, error>>
              ELSE /\ Raising("Exception: Gemini extraction failed")
                   /\ UNCHANGED <<attempt, sleeps, extracted_data>>
    /\ UNCHANGED <<movieVars, gapVars, envVars, textVars, parsed, normalized_data, insightVars, qrVars,
                   result>>

\* Step 3
NormalizeData ==
    /\ pc = "normalize_data"
    /\ LET r == normalize_data(extracted_data)
       IN  IF r.raised
           THEN Raising(r.exc) /\ UNCHANGED normalized_data
           ELSE /\ normalized_data' = r.val
                /\ pc' = "get_employee_address"
                /\ error' = error
    /\ UNCHANGED <<movieVars, gapVars, envVars, textVars, retryVars, extracted_data, insightVars,
                   qrVars, result>>

\* Step 4, first half
GetEmployeeAddress ==
    /\ pc = "get_employee_address"
    /\ LET r == get_employee_address(normalized_data)
       IN  IF r.raised
           THEN Raising(r.exc) /\ UNCHANGED address
           ELSE /\ address' = r.val
                /\ pc' = "generate_insights"
                /\ error' = error
    /\ UNCHANGED <<movieVars, gapVars, envVars, textVars, retryVars, dataVars, sent_to_insights,
                   insights_data, qrVars, result>>

\* Step 4: GeminiClient.generate_insights, up to the retry loop; formatting the
\* prompt can raise, which the outer except turns into an error insight
GenerateInsightsEnter ==
    /\ pc = "generate_insights"
    /\ sent_to_insights' = Append(sent_to_insights, normalized_data)
    /\ attempt' = 0 /\ calls' = 0 /\ sleeps' = 0
    /\ response' = "none" /\ parsed' = Null
    /\ \/ pc' = "insights_attempt" /\ UNCHANGED insights_data
       \/ /\ insights_data' =
                 [insights |-> List(<<Insight("Error generating insights: ", "KeyError")>>)]
          /\ pc' = "generate_quality_report"
    /\ UNCHANGED <<movieVars, gapVars, envVars, textVars, dataVars, address, qrVars, result, error>>

\* mutant: the parsed response is returned without the isinstance test
InsightsOfUnchecked(payload) == payload

\* what generate_insights returns for a parsed response
InsightsOf(payload) ==
    IF "insights" \in DOMAIN payload /\ payload["insights"].t = "list"
    THEN payload
    ELSE [insights |-> List(<<>>)]

\* mutant: nothing is returned in place of the insights when the last attempt fails
InsightsFallbackEmpty(kind) == [insights |-> List(<<>>)]

\* what generate_insights returns when the last attempt fails
InsightsFallback(kind) ==
    IF kind = "JSONDecodeError"
    THEN [insights |-> List(<<Insight("Unable to generate insights due to processing error", "")>>)]
    ELSE [insights |-> List(<<Insight("Insight generation failed", "")>>)]

\* one pass of generate_insights's retry loop
InsightsAttempt ==
    /\ pc = "insights_attempt"
    /\ calls' = calls + 1
    /\ \E answer \in InsightAnswers :
           /\ response' = answer.kind
           /\ IF answer.kind = "json"
              THEN /\ parsed' = answer.data
                   /\ insights_data' = InsightsOf(answer.data)
                   /\ pc' = "generate_quality_report"
                   /\ UNCHANGED <<attempt, sleeps>>
              ELSE IF attempt < max_retries - 1
              THEN /\ sleeps' = sleeps + 1
                   /\ attempt' = attempt + 1
                   /\ UNCHANGED <<pc, insights_data, parsed>>
              ELSE /\ insights_data' = InsightsFallback(answer.kind)
                   /\ pc' = "generate_quality_report"
                   /\ UNCHANGED <<attempt, sleeps, parsed>>
    /\ UNCHANGED <<movieVars, gapVars, envVars, textVars, dataVars, address, sent_to_insights, qrVars,
                   result, error>>

\* return {"fields": ..., "insights": insights_data.get("insights", []), "quality": ...}
ReturnResult ==
    /\ pc = "qr_done"
    /\ result' = [fields |-> normalized_data,
                  insights |-> IF "insights" \in DOMAIN insights_data
                               THEN insights_data["insights"] ELSE List(<<>>),
                  quality |-> quality_report]
    /\ pc' = "returned"
    /\ UNCHANGED <<movieVars, gapVars, envVars, textVars, retryVars, dataVars, insightVars, qrVars, error>>

\* except Exception as e: return the degraded result
HandleException ==
    /\ pc = "raised"
    /\ IF Caught(error)
       THEN result' = DegradedResult(error) /\ pc' = "returned"
       ELSE result' = result /\ pc' = "propagated"
    /\ UNCHANGED <<movieVars, gapVars, envVars, textVars, retryVars, dataVars, insightVars, qrVars, error>>

Next ==
    \/ ProcessW2
    \/ ExtractTextFromFile
    \/ ExtractW2DataEnter
    \/ ExtractAttempt
    \/ NormalizeData
    \/ GetEmployeeAddress
    \/ GenerateInsightsEnter
    \/ InsightsAttempt
    \/ QrEnter
    \/ QrMissing
    \/ QrText
    \/ QrConsistency
    \/ QrReturn
    \/ ReturnResult
    \/ HandleException

Spec == Init /\ [][Next]_vars

---------------------------------------------------------------------------
(* Properties of process_w2, checked under Spec *)

\* s is '***-**-' followed by four digits or by four asterisks
IsMaskFormat(s) ==
    /\ Len(s) = 11
    /\ SubSeq(s, 1, 7) = <<"*", "*", "*", "-", "*", "*", "-">>
    /\ \/ \A i \in 8..11 : s[i] \in Digits
       \/ \A i \in 8..11 : s[i] = "*"

\* the last four digits of raw, when it holds that many
LastFourDigits(raw) ==
    LET digits == SelectSeq(raw, LAMBDA c : c \in Digits)
    IN  IF Len(digits) >= 4
        THEN {SubSeq(digits, Len(digits) - 3, Len(digits))}
        ELSE {}

\* out shows nothing of the raw identifier beyond its last four digits: a raw
\* value that is absent, null or empty stays as it is, any other comes out in
\* the masked format
HiddenAsClaimed(raw, out) ==
    IF raw \in {Absent, Null, Str(<<>>)}
    THEN out = raw
    ELSE /\ IsStr(out)
         /\ IsMaskFormat(out.s)
         /\ SubSeq(out.s, 8, 11) \in LastFourDigits(raw.s) \cup {<<"*", "*", "*", "*">>}

IdsHidden(raw, tree) ==
    /\ HiddenAsClaimed(FieldOf(raw, "employee", "ssn"), FieldOf(tree, "employee", "ssn"))
    /\ HiddenAsClaimed(FieldOf(raw, "employer", "ein"), FieldOf(tree, "employer", "ein"))

AfterNormalize ==
    {"get_employee_address", "generate_insights", "insights_attempt",
     "generate_quality_report", "qr_missing", "qr_text", "qr_consistency",
     "qr_return", "qr_done"}

\* C2: once _normalize_data has returned, employee.ssn and employer.ein are
\* masked strings showing at most the last 4 digits of the raw identifier, in
\* the tree held by process_w2, in every tree handed to generate_insights and in
\* the 'fields' of the result returned, whatever blob extract_w2_data returned.
C2_MaskedDownstream ==
    /\ pc \in AfterNormalize => IdsHidden(extracted_data, normalized_data)
    /\ \A i \in 1..Len(sent_to_insights) :
           IdsHidden(extracted_data, sent_to_insights[i])
    /\ (pc = "returned" /\ ~test_mode /\ error = "none") =>
           IdsHidden(extracted_data, result.fields)

\* a raw SSN of nine digits and a raw EIN of two went to generate_insights and
\* came back in the result as the last four digits and the sentinel
C2_Witness ==
    /\ pc = "returned" /\ ~test_mode /\ error = "none"
    /\ FieldOf(extracted_data, "employee", "ssn") = Str(SsnExample)
    /\ FieldOf(extracted_data, "employer", "ein") = Str(<<"1", "2">>)
    /\ Len(sent_to_insights) = 1
    /\ FieldOf(sent_to_insights[1], "employee", "ssn") = MaskedExample
    /\ FieldOf(sent_to_insights[1], "employer", "ein") = Str(MaskSentinel)
    /\ FieldOf(result.fields, "employee", "ssn") = MaskedExample
    /\ FieldOf(result.fields, "employer", "ein") = Str(MaskSentinel)

\* r is the degraded result describing the error e
DegradedAsClaimed(r, e) ==
    /\ r.fields = EmptyDict
    /\ r.insights.t = "list"
    /\ Len(r.insights.items) = 1
    /\ r.insights.items[1].detail = e
    /\ r.quality.confidence = "low"
    /\ \E i \in 1..Len(r.quality.warnings) : r.quality.warnings[i].detail = e
    /\ r.quality.extraction_method = "failed"

\* the step taken with an exception in flight returns the degraded result
RaisedIsReturned ==
    pc = "raised" => pc' = "returned" /\ DegradedAsClaimed(result', error)

\* C3: in non-test mode no exception leaves process_w2: whichever step raises,
\* the call returns a result with empty fields, one insight describing the
\* error, confidence 'low', a warning describing the error and
\* extraction_method 'failed'.
C3_NeverPropagates ==
    /\ [](pc # "propagated")
    /\ []((pc = "returned" /\ error # "none") => DegradedAsClaimed(result, error))
    /\ [][RaisedIsReturned]_vars

\* the address composition raised on a numeric zip and the call returned the
\* degraded result
C3_Witness ==
    /\ pc = "returned"
    /\ error = "TypeError"
    /\ normalized_data # EmptyDict
    /\ quality_report = EmptyDict
    /\ DegradedAsClaimed(result, "TypeError")

\* extract_w2_data failed on the last of its attempts
ExtractionExhausted ==
    /\ Len(sent_to_insights) = 0
    /\ calls = 3
    /\ response \in {"JSONDecodeError", "Exception"}

\* generate_insights failed on the last of its attempts
InsightsExhausted ==
    /\ Len(sent_to_insights) = 1
    /\ calls = 3
    /\ response \in {"JSONDecodeError", "Exception"}

\* r has no fields, confidence 'low' and extraction_method 'failed'
DegradedInBrief(r) ==
    /\ r.fields = EmptyDict
    /\ r.quality.confidence = "low"
    /\ r.quality.extraction_method = "failed"

\* the notices generate_insights returns in place of insights
FailureNotices ==
    {"Unable to generate insights due to processing error", "Insight generation failed"}

\* C4: when extract_w2_data exhausts its retries process_w2 returns the degraded
\* result; when generate_insights exhausts its retries nothing is raised: it
\* returns a single failure notice in place of the insights, and process_w2
\* goes on to return the normalised fields, that notice and the computed
\* quality report, unless the quality report itself raises.  Neither failure
\* is propagated.
C4_ExhaustionOutcome ==
    /\ pc # "propagated"
    /\ (pc = "returned" /\ ExtractionExhausted) => DegradedInBrief(result)
    /\ (InsightsExhausted /\ pc = "generate_quality_report") =>
           /\ error = "none"
           /\ insights_data["insights"].t = "list"
           /\ Len(insights_data["insights"].items) = 1
           /\ insights_data["insights"].items[1].msg \in FailureNotices
    /\ (pc = "returned" /\ InsightsExhausted) =>
           IF error = "none"
           THEN /\ result.fields = normalized_data
                /\ result.insights = insights_data["insights"]
                /\ result.quality = quality_report
                /\ result.quality.extraction_method = extraction_method
           ELSE DegradedInBrief(result)

\* generate_insights gave up after its third attempt and process_w2 returned the
\* normalised fields with a computed quality report
C4_Witness ==
    /\ pc = "returned"
    /\ InsightsExhausted
    /\ sleeps = 2
    /\ error = "none"
    /\ result.fields # EmptyDict
    /\ result.quality.extraction_method # "failed"
    /\ result.insights.items[1].msg \in FailureNotices

\* C4 as stated: a collaborator call that exhausts its retries, be it
\* extract_w2_data or generate_insights, ends in the degraded result.
C4_ExhaustionDegrades ==
    /\ pc # "propagated"
    /\ (pc = "returned" /\ ~test_mode /\ (ExtractionExhausted \/ InsightsExhausted)) =>
           DegradedInBrief(result)

\* C5: every result process_w2 returns has 'fields', 'insights' (a list) and
\* 'quality', and its quality report has 'confidence', 'warnings',
\* 'text_quality' and 'extraction_method'.
C5_WellFormed ==
    pc = "returned" =>
        /\ {"fields", "insights", "quality"} \subseteq DOMAIN result
        /\ result.insights.t = "list"
        /\ {"confidence", "warnings", "text_quality", "extraction_method"}
               \subseteq DOMAIN result.quality

---------------------------------------------------------------------------
(* Further properties of _convert_numeric_fields, checked under SpecNumeric *)

\* v is a number or the null marker
NumberOrNull(v) == IsNum(v) \/ v = Null

\* the monetary fields present in the mapping d, out of fields
MonetaryIn(d, fields) == Range(fields) \cap DOMAIN d

\* C11: after _convert_numeric_fields every federal monetary field and every
\* state_wages / state_income_tax of a state_local record that is present is a
\* number or null, never a string.
C11_NoStringAfterConversion ==
    pc = "converted" =>
        /\ \A f \in MonetaryIn(normalized_data["federal"].kv, monetary_fields) :
               NumberOrNull(normalized_data["federal"].kv[f])
        /\ \A i \in DOMAIN normalized_data["state_local"].items :
               \A f \in MonetaryIn(normalized_data["state_local"].items[i].kv,
                                   state_monetary_fields) :
                   NumberOrNull(normalized_data["state_local"].items[i].kv[f])

\* cleaned, made of digits, '.' and '-', is not the text of a number: a second
\* '.', a '-' after the first character, or no digit at all
Malformed(cleaned) ==
    /\ cleaned # <<>> /\ cleaned # <<"-">>
    /\ \/ Cardinality({i \in DOMAIN cleaned : cleaned[i] = "."}) > 1
       \/ \E i \in DOMAIN cleaned : i > 1 /\ cleaned[i] = "-"
       \/ \A i \in DOMAIN cleaned : cleaned[i] \notin Digits

\* raw is a string whose cleaned form is malformed
MalformedMoney(raw) ==
    /\ IsStr(raw)
    /\ Malformed(SelectSeq(raw.s, LAMBDA c : c \in Digits \cup {".", "-"}))

\* every malformed monetary string of the mapping raw is null in out, and every
\* other key of raw is still in out
MalformedNulled(raw, out, fields) ==
    /\ DOMAIN out = DOMAIN raw
    /\ \A f \in MonetaryIn(raw, fields) : MalformedMoney(raw[f]) => out[f] = Null

\* C12: a monetary string whose cleaned form does not parse as a number never
\* makes _convert_numeric_fields raise: the field becomes null and the fields
\* after it, federal and state-local, are still processed.
C12_MalformedBecomesNull ==
    /\ pc # "raised"
    /\ pc = "converted" =>
          /\ MalformedNulled(extracted_data["federal"].kv,
                             normalized_data["federal"].kv, monetary_fields)
          /\ Len(normalized_data["state_local"].items)
                 = Len(extracted_data["state_local"].items)
          /\ \A i \in DOMAIN extracted_data["state_local"].items :
                 MalformedNulled(extracted_data["state_local"].items[i].kv,
                                 normalized_data["state_local"].items[i].kv,
                                 state_monetary_fields)
          /\ \A i \in DOMAIN extracted_data["state_local"].items :
                 extracted_data["state_local"].items[i].kv
                     = [state |-> Str(<<"N", "Y">>),
                        state_wages |-> Str(<<"1", "5", "0", "0", "0">>)]
                 => normalized_data["state_local"].items[i].kv["state_wages"]
                        = Num(15000, 0)

\* '1.2.3' in a federal field became null and the state_wages after it was
\* still converted
C12_Witness ==
    /\ pc = "converted"
    /\ \E f \in DOMAIN extracted_data["federal"].kv :
           /\ extracted_data["federal"].kv[f] = Str(<<"1", ".", "2", ".", "3">>)
           /\ normalized_data["federal"].kv[f] = Null
    /\ normalized_data["state_local"].items[1].kv["state_wages"] = Num(15000, 0)

---------------------------------------------------------------------------
(* _normalize_state_codes run on its own: trees it can be given *)

UpperChar(c) ==
    IF \E i \in DOMAIN LowerLetters : LowerLetters[i] = c
    THEN UpperLetters[CHOOSE i \in DOMAIN LowerLetters : LowerLetters[i] = c]
    ELSE c
Upper(s) == [i \in DOMAIN s |-> UpperChar(s[i])]
Capitalised(s) == [i \in DOMAIN s |-> IF i = 1 THEN UpperChar(s[i]) ELSE s[i]]
Spaces(n) == [i \in 1..n |-> " "]

\* every key of state_mapping in lower case, upper case and capitalised, with up
\* to MaxPad blanks on either side
StateSpellings ==
    {Str(Spaces(l) \o c \o Spaces(t)) :
        c \in UNION {{p.key, Upper(p.key), Capitalised(p.key)} : p \in state_mapping},
        l \in 0..MaxPad, t \in 0..MaxPad}

\* values that are no state
OtherStateValues ==
    {Absent, Null, Str(<<>>), Str(<<" ">>), Num(5, 0), Bool(TRUE), Map(EmptyDict),
     Str(<<"z", "z">>), Str(<<"c", "a", "l", "i", "f">>), Str(<<"c", " ", "a">>),
     Str(<<"n", "e", "w", "y", "o", "r", "k">>), Str(<<"P", "R">>)}

StateValues == StateSpellings \cup OtherStateValues

StateTrees ==
    {[employee |-> Map([name |-> Str(<<"J">>),
                        address |-> Map(Dict([city |-> Str(<<"A">>), state |-> v]))]),
      employer |-> Map([address |-> Map([state |-> Str(<<"n", "y">>)])]),
      state_local |-> List(<<>>)] : v \in StateValues}
    \cup
    {[employee |-> Map([address |-> Map([state |-> Str(<<"c", "a", "l", "i", "f", "o", "r", "n", "i", "a">>)])]),
      employer |-> Map([address |-> Map(Dict([state |-> v]))]),
      federal |-> Map([wages_tips |-> Num(5, 0)])] : v \in StateValues}
    \cup
    {[employee |-> Map([name |-> Str(<<"J">>)]),
      state_local |-> List(<<Map([state |-> Str(<<"t", "x">>),
                                  state_wages |-> Num(5, 0)]),
                             Map(Dict([locality |-> Str(<<"n", "y">>), state |-> v]))>>)] :
        v \in StateValues}
    \cup {EmptyDict, [employer |-> Map(EmptyDict)]}

InitStates ==
    /\ pc = "normalize_state_codes"
    /\ extracted_data \in StateTrees
    /\ normalized_data = extracted_data
    /\ text_content = NoText
    /\ extraction_method = "none"
    /\ EnvIdle /\ RetryIdle /\ InsightIdle /\ QrIdle /\ GapIdle /\ MovieIdle
    /\ result = EmptyDict
    /\ error = "none"

\* self._normalize_state_codes(data), data mutated in place
NormalizeStateCodes ==
    /\ pc = "normalize_state_codes"
    /\ LET r == normalize_state_codes(normalized_data)
       IN  IF r.raised
           THEN Raising(r.exc) /\ UNCHANGED normalized_data
           ELSE /\ normalized_data' = r.val
                /\ pc' = "states_normalized"
                /\ error' = error
    /\ UNCHANGED <<movieVars, gapVars, envVars, textVars, retryVars, extracted_data, insightVars,
                   qrVars, result>>

NextStates == NormalizeStateCodes

SpecStates == InitStates /\ [][NextStates]_vars

---------------------------------------------------------------------------
(* Properties of _normalize_state_codes, checked under SpecStates *)

\* s without the blanks before its first and after its last non-blank character
Trimmed(s) ==
    LET solid == {i \in DOMAIN s : s[i] \notin {" ", "\t", "\n"}}
    IN  IF solid = {} THEN <<>>
        ELSE SubSeq(s, CHOOSE i \in solid : \A j \in solid : i <= j,
                       CHOOSE i \in solid : \A j \in solid : i >= j)

\* s with every upper-case letter replaced by its lower-case letter
LowerCased(s) ==
    [i \in DOMAIN s |->
        IF \E k \in 1..26 : UpperLetters[k] = s[i]
        THEN LowerLetters[CHOOSE k \in 1..26 : UpperLetters[k] = s[i]]
        ELSE s[i]]

\* the canonical code when v is a string naming a supported state, else v itself
ExpectedState(v) ==
    IF IsStr(v) /\ \E p \in state_mapping : p.key = Trimmed(LowerCased(v.s))
    THEN Str((CHOOSE p \in state_mapping : p.key = Trimmed(LowerCased(v.s))).code)
    ELSE v

\* data[section]['address']['state'], or Absent
AddressState(data, section) ==
    IF /\ section \in DOMAIN data
       /\ "address" \in DOMAIN data[section].kv
       /\ "state" \in DOMAIN data[section].kv["address"].kv
    THEN data[section].kv["address"].kv["state"]
    ELSE Absent

\* the state_local records of data
Records(data) ==
    IF "state_local" \in DOMAIN data THEN data["state_local"].items ELSE <<>>

\* rec['state'], or Absent
RecordState(rec) == IF "state" \in DOMAIN rec.kv THEN rec.kv["state"] ELSE Absent

\* the mappings a and b have the same keys and agree on all of them but key
AgreeBut(a, b, key) ==
    /\ DOMAIN a = DOMAIN b
    /\ \A k \in DOMAIN a \ {key} : a[k] = b[k]

\* out has the keys of raw at every level and differs from raw in state values only
SameButStates(raw, out) ==
    /\ DOMAIN out = DOMAIN raw
    /\ \A k \in DOMAIN raw \ {"employee", "employer", "state_local"} : out[k] = raw[k]
    /\ \A sec \in {"employee", "employer"} \cap DOMAIN raw :
           /\ AgreeBut(raw[sec].kv, out[sec].kv, "address")
           /\ "address" \in DOMAIN raw[sec].kv =>
                  AgreeBut(raw[sec].kv["address"].kv, out[sec].kv["address"].kv, "state")
    /\ Len(Records(out)) = Len(Records(raw))
    /\ \A i \in DOMAIN Records(raw) :
           AgreeBut(Records(raw)[i].kv, Records(out)[i].kv, "state")

\* the table holds 50 states, each under its 2-letter code and under one name,
\* both giving the code in upper case
FiftyStatesTwice ==
    /\ Cardinality({p.code : p \in state_mapping}) = 50
    /\ \A p \in state_mapping : Len(p.code) = 2 /\ Upper(p.code) = p.code
    /\ \A c \in {p.code : p \in state_mapping} :
           /\ \E p \in state_mapping : p.code = c /\ LowerCased(c) = p.key
           /\ Cardinality({p \in state_mapping : p.code = c /\ Len(p.key) > 2}) = 1
           /\ Cardinality({p \in state_mapping : p.code = c}) = 2

\* C13: employee.address.state, employer.address.state and the state of every
\* state_local record become the upper-case 2-letter code when the trimmed,
\* lower-cased value is the name or the code of one of the 50 states (name and
\* code giving the same result); any other value, a non-string and a missing
\* field stay as they are, and no key is created.
C13_StateCodes ==
    /\ pc # "raised"
    /\ pc = "states_normalized" =>
          /\ FiftyStatesTwice
          /\ SameButStates(extracted_data, normalized_data)
          /\ \A sec \in {"employee", "employer"} :
                 AddressState(normalized_data, sec)
                     = ExpectedState(AddressState(extracted_data, sec))
          /\ \A i \in DOMAIN Records(extracted_data) :
                 RecordState(Records(normalized_data)[i])
                     = ExpectedState(RecordState(Records(extracted_data)[i]))

\* ' California' beside 'ny' came out as 'CA' beside 'NY'
C13_Witness ==
    /\ pc = "states_normalized"
    /\ AddressState(extracted_data, "employee")
           = Str(<<" ", "C", "a", "l", "i", "f", "o", "r", "n", "i", "a">>)
    /\ AddressState(normalized_data, "employee") = Str(<<"C", "A">>)
    /\ AddressState(extracted_data, "employer") = Str(<<"n", "y">>)
    /\ AddressState(normalized_data, "employer") = Str(<<"N", "Y">>)

---------------------------------------------------------------------------
(* The three passes of _normalize_data run a second time on their own output *)

InitNormalizeOnly ==
    /\ pc = "normalize_data_only"
    /\ extracted_data \in Blobs
    /\ normalized_data = EmptyDict
    /\ text_content = NoText
    /\ extraction_method = "none"
    /\ EnvIdle /\ RetryIdle /\ InsightIdle /\ QrIdle /\ GapIdle /\ MovieIdle
    /\ result = EmptyDict
    /\ error = "none"

InitIdem == InitMask \/ InitStates \/ InitNumeric \/ InitNormalizeOnly

\* normalized = self._normalize_data(extracted_data), one of the passes to follow
NormalizeDataOnly ==
    /\ pc = "normalize_data_only"
    /\ LET r == normalize_data(extracted_data)
       IN  IF r.raised
           THEN Raising(r.exc) /\ UNCHANGED normalized_data
           ELSE /\ normalized_data' = r.val
                /\ pc' \in {"masked", "states_normalized", "converted"}
                /\ error' = error
    /\ UNCHANGED <<movieVars, gapVars, envVars, textVars, retryVars, extracted_data, insightVars,
                   qrVars, result>>

\* self._mask_sensitive_data(data) on the tree it, or _normalize_data, returned
MaskAgain ==
    /\ pc = "masked"
    /\ LET r == mask_sensitive_data(normalized_data)
       IN  IF r.raised
           THEN Raising(r.exc) /\ UNCHANGED normalized_data
           ELSE /\ normalized_data' = r.val
                /\ pc' = "masked_again"
                /\ error' = error
    /\ UNCHANGED <<movieVars, gapVars, envVars, textVars, retryVars, extracted_data, insightVars,
                   qrVars, result>>

\* self._normalize_state_codes(data) on the tree it, or _normalize_data, returned
StatesAgain ==
    /\ pc = "states_normalized"
    /\ LET r == normalize_state_codes(normalized_data)
       IN  IF r.raised
           THEN Raising(r.exc) /\ UNCHANGED normalized_data
           ELSE /\ normalized_data' = r.val
                /\ pc' = "states_normalized_again"
                /\ error' = error
    /\ UNCHANGED <<movieVars, gapVars, envVars, textVars, retryVars, extracted_data, insightVars,
                   qrVars, result>>

\* self._convert_numeric_fields(data) on the tree it, or _normalize_data, returned
ConvertAgain ==
    /\ pc = "converted"
    /\ LET r == convert_numeric_fields(normalized_data)
       IN  IF r.raised
           THEN Raising(r.exc) /\ UNCHANGED normalized_data
           ELSE /\ normalized_data' = r.val
                /\ pc' = "converted_again"
                /\ error' = error
    /\ UNCHANGED <<movieVars, gapVars, envVars, textVars, retryVars, extracted_data, insightVars,
                   qrVars, result>>

NextIdem ==
    \/ MaskSensitiveData
    \/ NormalizeStateCodes
    \/ ConvertNumericFields
    \/ NormalizeDataOnly
    \/ MaskAgain
    \/ StatesAgain
    \/ ConvertAgain

SpecIdem == InitIdem /\ [][NextIdem]_vars

---------------------------------------------------------------------------
(* Idempotence, checked under SpecIdem *)

ProcessedOnce == {"masked", "states_normalized", "converted"}
ProcessedTwice == {"masked_again", "states_normalized_again", "converted_again"}

\* the second run of a pass completes and leaves the tree as the first run left it
SecondRunChangesNothing ==
    pc \in ProcessedOnce =>
        /\ pc' \in ProcessedTwice
        /\ normalized_data' = normalized_data

\* C14: _mask_sensitive_data, _normalize_state_codes and _convert_numeric_fields
\* are idempotent: run again on a tree the same pass, or the whole of
\* _normalize_data, has processed, each leaves the tree as it was.
C14_Idempotent == [][SecondRunChangesNothing]_vars

\* '$75,000.00' became 75000 in the first run and was still 75000 after the
\* second
C14_Witness ==
    /\ pc = "converted_again"
    /\ \E f \in DOMAIN extracted_data["federal"].kv :
           /\ extracted_data["federal"].kv[f]
                  = Str(<<"$", "7", "5", ",", "0", "0", "0", ".", "0", "0">>)
           /\ normalized_data["federal"].kv[f] = Num(75000, 0)

---------------------------------------------------------------------------
(* Properties of _normalize_data, checked under Spec *)

SectionNames == {"employee", "employer", "federal", "state_local", "other_boxes"}

\* the empty value of a section: [] for state_local, {} for the others
EmptySection(name) == IF name = "state_local" THEN List(<<>>) ELSE Map(EmptyDict)

\* tree holds the five sections, those missing from raw empty, other_boxes as in raw
FiveSections(raw, tree) ==
    /\ DOMAIN tree = SectionNames
    /\ \A name \in SectionNames \ DOMAIN raw : tree[name] = EmptySection(name)
    /\ "other_boxes" \in DOMAIN raw => tree["other_boxes"] = raw["other_boxes"]

\* C15: for every blob extract_w2_data returns, the empty mapping and mappings
\* lacking sections included, the tree _normalize_data returns holds the five
\* sections employee, employer, federal, state_local and other_boxes, a missing
\* one empty, and other_boxes as it was in the blob.
C15_FiveSections ==
    pc = "get_employee_address" => FiveSections(extracted_data, normalized_data)

---------------------------------------------------------------------------
(* _get_employee_address run on its own: trees it can be given *)

\* what one component of an address can hold
ComponentValues(name) ==
    {Absent, Null, Str(<<>>)} \cup
    (CASE name = "street" -> {Str(<<"1", " ", "M">>), Str(<<"2">>)}
       [] name = "city" -> {Str(<<"A">>), Str(<<"B", ",">>)}
       [] name = "state" -> {Str(<<"N", "Y">>), Str(<<"C", "A">>)}
       [] name = "zip" -> {Str(<<"1", "0">>), Str(<<"0">>)})

Addresses ==
    {Map(Dict([street |-> a, city |-> b, state |-> c, zip |-> d,
               country |-> Str(<<"U", "S">>)])) :
        a \in ComponentValues("street"), b \in ComponentValues("city"),
        c \in ComponentValues("state"), d \in ComponentValues("zip")}

AddressTrees ==
    {[employee |-> Map([name |-> Str(<<"J">>), address |-> a]),
      employer |-> Map([address |-> Map([city |-> Str(<<"Z">>)])])] : a \in Addresses}
    \cup {EmptyDict,
          [employer |-> Map([address |-> Map([city |-> Str(<<"Z">>)])])],
          [employee |-> Map([name |-> Str(<<"J">>)])],
          [employee |-> Map(EmptyDict)],
          [employee |-> Map([address |-> Map(EmptyDict)])]}

InitAddress ==
    /\ pc = "get_employee_address"
    /\ extracted_data = EmptyDict
    /\ normalized_data \in AddressTrees
    /\ text_content = NoText
    /\ extraction_method = "none"
    /\ EnvIdle /\ RetryIdle /\ InsightIdle /\ QrIdle /\ GapIdle /\ MovieIdle
    /\ result = EmptyDict
    /\ error = "none"

NextAddress == GetEmployeeAddress

SpecAddress == InitAddress /\ [][NextAddress]_vars

---------------------------------------------------------------------------
(* Properties of _get_employee_address, checked under SpecAddress *)

\* the component values of data's employee address that are there and not empty,
\* in the order street, city, state, zip
PresentParts(data) ==
    LET names == <<"street", "city", "state", "zip">>
        held(k) == /\ "employee" \in DOMAIN data
                   /\ "address" \in DOMAIN data["employee"].kv
                   /\ k \in DOMAIN data["employee"].kv["address"].kv
                   /\ data["employee"].kv["address"].kv[k] \notin {Null, Str(<<>>)}
        kept == SelectSeq(names, held)
    IN  [i \in DOMAIN kept |-> data["employee"].kv["address"].kv[kept[i]].s]

\* parts with ', ' between each two neighbours
RECURSIVE CommaSeparated(_)
CommaSeparated(parts) ==
    IF parts = <<>> THEN <<>>
    ELSE LET front == SubSeq(parts, 1, Len(parts) - 1)
         IN  IF front = <<>> THEN parts[1]
             ELSE CommaSeparated(front) \o <<",", " ">> \o parts[Len(parts)]

\* the call leaves the tree as it found it
AddressCallKeepsTree ==
    pc = "get_employee_address" => normalized_data' = normalized_data

\* C16: _get_employee_address returns the present, non-empty components among
\* street, city, state, zip of employee.address, in that order, joined with
\* ', '; the empty string when the employee section, the address or all four
\* components are absent; and it changes nothing in the tree.
C16_EmployeeAddress ==
    /\ [](pc # "raised")
    /\ [](pc = "generate_insights" =>
              address = CommaSeparated(PresentParts(normalized_data)))
    /\ [][AddressCallKeepsTree]_vars

\* city and zip present, street absent, state empty: 'A, 10'
C16_Witness ==
    /\ pc = "generate_insights"
    /\ "employee" \in DOMAIN normalized_data
    /\ "address" \in DOMAIN normalized_data["employee"].kv
    /\ normalized_data["employee"].kv["address"].kv
           = [city |-> Str(<<"A">>), state |-> Str(<<>>), zip |-> Str(<<"1", "0">>),
              country |-> Str(<<"U", "S">>)]
    /\ address = <<"A", ",", " ", "1", "0">>

---------------------------------------------------------------------------
(* run_parser.main: the command-line entry point around process_w2 *)

InitMain ==
    /\ pc = "main"
    /\ test_mode \in BOOLEAN
    /\ file \in Files
    /\ ocr_available \in BOOLEAN
    /\ text_content = NoText
    /\ extraction_method = "none"
    /\ extracted_data = EmptyDict
    /\ normalized_data = EmptyDict
    /\ RetryIdle /\ InsightIdle /\ QrIdle /\ GapIdle /\ MovieIdle
    /\ result = EmptyDict
    /\ error = "none"

\* the two checks before the parser is built: the file exists and is not empty
MainValidate ==
    /\ pc = "main"
    /\ pc' = IF ~file.exists \/ file.empty THEN "sys_exit_1" ELSE "process_w2"
    /\ UNCHANGED <<movieVars, gapVars, envVars, textVars, retryVars, dataVars, insightVars, qrVars,
                   result, error>>

\* the result is printed or saved; an exception out of process_w2 exits with 1
MainOutput ==
    /\ pc \in {"returned", "propagated"}
    /\ pc' = IF pc = "returned" THEN "main_done" ELSE "sys_exit_1"
    /\ UNCHANGED <<movieVars, gapVars, envVars, textVars, retryVars, dataVars, insightVars, qrVars,
                   result, error>>

NextMain == MainValidate \/ MainOutput \/ Next

SpecMain == InitMain /\ [][NextMain]_vars

---------------------------------------------------------------------------
(* Properties of the entry point, checked under SpecMain *)

SupportedExtensions == {".pdf", ".jpg", ".jpeg", ".png", ".tiff", ".bmp", ".txt"}

\* the file is missing, empty or of an extension the parser does not read
InputError ==
    ~file.exists \/ file.empty \/ file.ext \notin SupportedExtensions

\* C17: a nonexistent file, an empty file and a file of an unsupported extension
\* are a hard failure before the pipeline runs: no text extraction, no
\* collaborator call, and no result object, degraded or not.
C17_InputErrorsFailHard ==
    InputError =>
        /\ pc \in {"main", "sys_exit_1"}
        /\ extraction_method = "none"
        /\ calls = 0
        /\ Len(sent_to_insights) = 0
        /\ result = EmptyDict

---------------------------------------------------------------------------
(* GeminiClient.extract_w2_data run on its own, every attempt eventually made *)

InitExtract ==
    /\ pc = "extract_w2_data"
    /\ text_content \in Texts
    /\ extraction_method \in {"direct_text", "direct_extraction", "ocr"}
    /\ extracted_data = EmptyDict
    /\ normalized_data = EmptyDict
    /\ EnvIdle /\ RetryIdle /\ InsightIdle /\ QrIdle /\ GapIdle /\ MovieIdle
    /\ result = EmptyDict
    /\ error = "none"

NextExtract == ExtractW2DataEnter \/ ExtractAttempt

\* a call in progress goes on: generate_content returns or raises, sleep ends
SpecExtract == InitExtract /\ [][NextExtract]_vars /\ WF_vars(NextExtract)

---------------------------------------------------------------------------
(* Properties of extract_w2_data's retry loop, checked under SpecExtract *)

\* one pass of the loop: one more call, then either the parsed blob is returned
\* with no wait, or there is one more wait and one more attempt, or, on the
\* failure of the third call, the exception
LoopStep ==
    pc = "extract_attempt" =>
        /\ calls' = calls + 1
        /\ \/ pc' = "normalize_data" /\ response' = "json" /\ sleeps' = sleeps
           \/ /\ pc' = "extract_attempt" /\ response' # "json"
              /\ sleeps' = sleeps + 1 /\ calls' < 3
           \/ /\ pc' = "raised" /\ response' # "json"
              /\ sleeps' = sleeps /\ calls' = 3

\* once the call has returned or raised, no call and no wait follows
NoCallAfterwards ==
    pc \in {"normalize_data", "raised"} => calls' = calls /\ sleeps' = sleeps

\* C18: one invocation of extract_w2_data calls the model at most 3 times; the
\* first response that parses is returned at once with no further call; each
\* failed attempt but the last is followed by one 1-second wait, at most 2 in
\* all; it raises only after the third failure in a row; and it terminates.
C18_BoundedRetry ==
    /\ [](calls <= 3 /\ sleeps <= 2)
    /\ [](pc = "extract_attempt" => sleeps = calls)
    /\ [](pc = "normalize_data" => response = "json" /\ sleeps = calls - 1)
    /\ [](pc = "raised" => calls = 3 /\ sleeps = 2 /\ response # "json")
    /\ [][LoopStep]_vars
    /\ [][NoCallAfterwards]_vars
    /\ (pc = "extract_w2_data" ~> pc \in {"normalize_data", "raised"})

\* three calls failed with two waits between them and the exception was raised
C18_Witness ==
    /\ pc = "raised"
    /\ error = "Exception: Gemini extraction failed"
    /\ calls = 3
    /\ sleeps = 2

---------------------------------------------------------------------------
(* Properties of the insights of a result, checked under Spec *)

\* the list under 'insights' of the parsed response, [] when there is none
ListOrEmpty(payload) ==
    IF "insights" \in DOMAIN payload /\ payload["insights"].t = "list"
    THEN payload["insights"]
    ELSE List(<<>>)

\* C19: in every non-degraded result 'insights' is a list: the list the insight
\* call's response holds under 'insights', unchanged, and the empty list when
\* the response has no such entry or the entry is no list.
C19_InsightsList ==
    (pc = "returned" /\ error = "none") =>
        /\ result.insights.t = "list"
        /\ (~test_mode /\ response = "json") => result.insights = ListOrEmpty(parsed)

\* a response with two insights was passed through beside the normalised fields
C19_Witness ==
    /\ pc = "returned" /\ error = "none" /\ ~test_mode
    /\ response = "json"
    /\ parsed = [insights |-> List(<<Insight("i1", ""), Insight("i2", "")>>),
                 summary |-> Str(<<"s">>)]
    /\ result.insights = List(<<Insight("i1", ""), Insight("i2", "")>>)

---------------------------------------------------------------------------
(* task1_price_gap: find_price_gap_pair *)

\* longest list of prices tried
MaxNums == 4
\* prices are drawn from -1..MaxPrice, gaps from -MaxGap..MaxGap
MaxPrice == 2
MaxGap == 3

\* a tuple (i, j) of indices, counted from 0 as in the code
Pair(i, j) == [t |-> "pair", i |-> i, j |-> j]

\* candidate < best_pair on tuples
PairLess(a, b) == a.i < b.i \/ (a.i = b.i /\ a.j < b.j)

\* mutant: the first pair found is kept
BetterKeepsFirst(best, candidate) ==
    IF best = Null THEN candidate ELSE best

\* `if best_pair is None or candidate < best_pair: best_pair = candidate`
Better(best, candidate) ==
    IF best = Null \/ PairLess(candidate, best) THEN candidate ELSE best

\* `if target in value_to_index: ...` for one of the two targets
CheckTarget(best, value_to_index, target, j) ==
    IF target \in DOMAIN value_to_index
    THEN Better(best, Pair(value_to_index[target], j))
    ELSE best

\* the for loop from index j on, with the dictionary and best pair so far
RECURSIVE Loop(_, _, _, _, _)
Loop(ns, gap, j, value_to_index, best) ==
    IF j >= Len(ns) THEN best
    ELSE LET num == ns[j + 1]
             b1 == CheckTarget(best, value_to_index, num - gap, j)
             b2 == CheckTarget(b1, value_to_index, num + gap, j)
             seen == IF num \in DOMAIN value_to_index THEN value_to_index
                     ELSE Put(value_to_index, num, j)
         IN  Loop(ns, gap, j + 1, seen, b2)

find_price_gap_pair(ns, gap) ==
    IF Len(ns) < 2 THEN Null ELSE Loop(ns, gap, 0, EmptyDict, Null)

PriceLists == SeqsUpTo((0 - 1)..MaxPrice, MaxNums)

InitGap ==
    /\ pc = "find_price_gap_pair"
    /\ nums \in PriceLists
    /\ price_gap \in (0 - MaxGap)..MaxGap
    /\ best_pair = Null
    /\ extracted_data = EmptyDict
    /\ normalized_data = EmptyDict
    /\ text_content = NoText
    /\ extraction_method = "none"
    /\ EnvIdle /\ RetryIdle /\ InsightIdle /\ QrIdle /\ MovieIdle
    /\ result = EmptyDict
    /\ error = "none"

FindPriceGapPair ==
    /\ pc = "find_price_gap_pair"
    /\ best_pair' = find_price_gap_pair(nums, price_gap)
    /\ pc' = "gap_returned"
    /\ UNCHANGED <<movieVars, nums, price_gap, envVars, textVars, retryVars, dataVars, insightVars,
                   qrVars, result, error>>

NextGap == FindPriceGapPair

SpecGap == InitGap /\ [][NextGap]_vars

---------------------------------------------------------------------------
(* Properties of find_price_gap_pair, checked under SpecGap *)

\* |a - b|
AbsDiff(a, b) == IF a >= b THEN a - b ELSE b - a

\* C20: for every list nums and every integer k, negative ones included, the
\* result is None or a pair (i, j) with 0 <= i < j < len(nums) and
\* abs(nums[i] - nums[j]) = k; it is None for a list of fewer than 2 elements.
C20_PairHasGap ==
    pc = "gap_returned" =>
        /\ Len(nums) < 2 => best_pair = Null
        /\ best_pair # Null =>
               /\ 0 <= best_pair.i /\ best_pair.i < best_pair.j
               /\ best_pair.j < Len(nums)
               /\ AbsDiff(nums[best_pair.i + 1], nums[best_pair.j + 1]) = price_gap

\* the pairs i < j of indices of nums, from 0, whose values differ by exactly gap
ValidPairs(ns, gap) ==
    {p \in (0..(Len(ns) - 1)) \X (0..(Len(ns) - 1)) :
        p[1] < p[2] /\ AbsDiff(ns[p[1] + 1], ns[p[2] + 1]) = gap}

\* p comes no later than q in the order of smallest i, then smallest j
LexLeq(p, q) == p[1] < q[1] \/ (p[1] = q[1] /\ p[2] <= q[2])

\* C21: for k >= 0 the result is None exactly when no pair i < j has
\* abs(nums[i] - nums[j]) = k, and otherwise it is the valid pair with the
\* smallest i and, for that i, the smallest j, repeated values and k = 0
\* included.
C21_SmallestPair ==
    (pc = "gap_returned" /\ price_gap >= 0) =>
        LET valid == ValidPairs(nums, price_gap)
        IN  /\ best_pair = Null <=> valid = {}
            /\ best_pair # Null =>
                   /\ <<best_pair.i, best_pair.j>> \in valid
                   /\ \A q \in valid : LexLeq(<<best_pair.i, best_pair.j>>, q)

\* in [2, 0, 1, -1] with k = 1 the pair (1, 2) is met first and (0, 2) is returned
C21_Witness ==
    /\ pc = "gap_returned"
    /\ nums = <<2, 0, 1, 0 - 1>>
    /\ price_gap = 1
    /\ best_pair = Pair(0, 2)


\* ---------------------------------------------------------------------------
\* task2_api/routes/movies.py: get_movies
\* ---------------------------------------------------------------------------

\* the most results in one upstream search body
MaxMovies == 2
\* the largest page number asked for (page >= 1)
MaxPage == 2

\* the values of the parameter q: left out, empty, a keyword
Queries == {Null, Str(<<>>), Str(<<"a">>)}

\* "not q"
NoQuery(value) == value = Null \/ value = Str(<<>>)

\* mutant: every error status is retried
NeedsRetryOnError(status) == status >= 400

\* "response.status_code >= 500"
NeedsRetry(status) == status >= 500

\* status codes upstream answers with
Statuses == {200, 301, 404, 500, 503}

\* one entry of "results": with id and title, without title, without id
MovieData ==
    {[id |-> 1, title |-> "Alien"], [id |-> 2], [title |-> "Brazil"]}

\* what response.json() gives: Null when the body is no JSON, else a dict
Bodies ==
    {Null, EmptyDict}
        \cup {[results |-> r, page |-> p, total_pages |-> MaxPage, total_results |-> Len(r)] :
                 r \in SeqsUpTo(MovieData, MaxMovies), p \in 1..MaxPage}

\* what "await client.get(base_url, ...)" ends in
SearchOutcomes ==
    {[kind |-> "RequestError"]}
        \cup {[kind |-> "response", status |-> s, body |-> b] : s \in Statuses, b \in Bodies}

\* what the credits request of one movie ends in
CreditsOutcomes ==
    {[kind |-> "RequestError"],
     [kind |-> "response", status |-> 404, crew |-> <<>>],
     [kind |-> "response", status |-> 200, crew |-> <<>>],
     [kind |-> "response", status |-> 200,
      crew |-> <<[job |-> "Producer", name |-> "Gordon Carroll"],
                 [job |-> "Director", name |-> "Ridley Scott"]>>],
     [kind |-> "response", status |-> 200, crew |-> <<[job |-> "Director"]>>]}

\* data.get(key, default)
DataGet(data, key, default) == IF key \in DOMAIN data THEN data[key] ELSE default

\* get_movie_director: the first Director's name, "Unknown" in every other case
get_movie_director(credits) ==
    IF credits.kind = "response" /\ credits.status = 200
    THEN LET directors == SelectSeq(credits.crew, LAMBDA person : person.job = "Director")
         IN  IF directors # <<>>
             THEN DataGet(directors[1], "name", "Unknown")
             ELSE "Unknown"
    ELSE "Unknown"

\* Movie(title=movie_data.get("title", "Unknown"), director=director or "Unknown")
Movie(movie_data, director) ==
    [title |-> DataGet(movie_data, "title", "Unknown"), director |-> director]

\* MoviesResponse(...), answered with status 200
MoviesResponse(movies, page, total_pages, total_results) ==
    [status |-> 200, movies |-> movies, page |-> page,
     total_pages |-> total_pages, total_results |-> total_results]

\* HTTPException(status_code=..., detail=...)
HTTPException(status_code, detail) == [status |-> status_code, detail |-> detail]

\* the results before the first one that has no "id"
WithId(results) ==
    LET missing == {n \in DOMAIN results : "id" \notin DOMAIN results[n]}
    IN  IF missing = {} THEN results
        ELSE SubSeq(results, 1, (CHOOSE n \in missing : \A m \in missing : n <= m) - 1)

\* response.raise_for_status() raises: for 4xx and 5xx in every httpx, for
\* 3xx depending on the httpx installed
MayRaiseForStatus(status) == status >= 300
MayPassForStatus(status) == status < 400

InitMovies ==
    /\ pc = "get_movies"
    /\ query \in Queries
    /\ api_key \in BOOLEAN
    /\ search_requests = 0
    /\ credits_requests = 0
    /\ upstream = <<>>
    /\ http_answer = Null
    /\ extracted_data = EmptyDict
    /\ normalized_data = EmptyDict
    /\ text_content = NoText
    /\ extraction_method = "none"
    /\ EnvIdle /\ RetryIdle /\ InsightIdle /\ QrIdle /\ GapIdle
    /\ result = EmptyDict
    /\ error = "none"

\* get_movies up to the first request: lines 28-36
GetMovies ==
    /\ pc = "get_movies"
    /\ IF NoQuery(query)
       THEN \E page \in 1..MaxPage :
               /\ http_answer' = MoviesResponse(<<>>, page, 0, 0)
               /\ pc' = "answered"
       ELSE IF ~api_key
            THEN /\ http_answer' = HTTPException(500, "Internal Server Error")
                 /\ pc' = "answered"
            ELSE /\ pc' = "first_attempt"
                 /\ UNCHANGED http_answer
    /\ UNCHANGED <<query, api_key, search_requests, credits_requests, upstream>>
    /\ UNCHANGED <<gapVars, envVars, textVars, retryVars, dataVars, insightVars,
                   qrVars, result, error>>

\* the first client.get and the test for a retry: lines 45-56
FirstAttempt ==
    /\ pc = "first_attempt"
    /\ \E outcome \in SearchOutcomes :
          /\ search_requests' = search_requests + 1
          /\ upstream' = Append(upstream, outcome)
          /\ IF outcome.kind = "RequestError"
             THEN /\ http_answer' = HTTPException(502, "Failed to connect to movie API")
                  /\ pc' = "answered"
             ELSE /\ pc' = IF NeedsRetry(outcome.status) THEN "retry" ELSE "raise_for_status"
                  /\ UNCHANGED http_answer
    /\ UNCHANGED <<query, api_key, credits_requests>>
    /\ UNCHANGED <<gapVars, envVars, textVars, retryVars, dataVars, insightVars,
                   qrVars, result, error>>

\* the second client.get: lines 57-65
Retry ==
    /\ pc = "retry"
    /\ \E outcome \in SearchOutcomes :
          /\ search_requests' = search_requests + 1
          /\ upstream' = Append(upstream, outcome)
          /\ IF outcome.kind = "RequestError"
             THEN /\ http_answer' = HTTPException(502, "Failed to connect to movie API")
                  /\ pc' = "answered"
             ELSE /\ pc' = "raise_for_status"
                  /\ UNCHANGED http_answer
    /\ UNCHANGED <<query, api_key, credits_requests>>
    /\ UNCHANGED <<gapVars, envVars, textVars, retryVars, dataVars, insightVars,
                   qrVars, result, error>>

\* response.raise_for_status() and the HTTPStatusError handler: lines 67, 88-92
RaiseForStatus ==
    /\ pc = "raise_for_status"
    /\ LET status_code == upstream[Len(upstream)].status
       IN  \/ /\ MayRaiseForStatus(status_code)
              /\ http_answer' = HTTPException(502, "Upstream API error")
              /\ pc' = "answered"
           \/ /\ MayPassForStatus(status_code)
              /\ pc' = "extract_movies"
              /\ UNCHANGED http_answer
    /\ UNCHANGED <<query, api_key, search_requests, credits_requests, upstream>>
    /\ UNCHANGED <<gapVars, envVars, textVars, retryVars, dataVars, insightVars,
                   qrVars, result, error>>

\* response.json(), the loop over the results and the answer: lines 68-86, 98-102
ExtractMovies ==
    /\ pc = "extract_movies"
    /\ LET data == upstream[Len(upstream)].body
       IN  IF data = Null
           THEN /\ http_answer' = HTTPException(500, "Internal server error")
                /\ UNCHANGED credits_requests
           ELSE LET results == DataGet(data, "results", <<>>)
                    reached == WithId(results)
                IN  \E credits \in [DOMAIN reached -> CreditsOutcomes] :
                       /\ credits_requests' = credits_requests + Len(reached)
                       /\ http_answer' =
                              IF Len(reached) < Len(results)
                              THEN HTTPException(500, "Internal server error")
                              ELSE MoviesResponse(
                                       [n \in DOMAIN results |->
                                           Movie(results[n], get_movie_director(credits[n]))],
                                       DataGet(data, "page", 1),
                                       DataGet(data, "total_pages", 0),
                                       DataGet(data, "total_results", 0))
    /\ pc' = "answered"
    /\ UNCHANGED <<query, api_key, search_requests, upstream>>
    /\ UNCHANGED <<gapVars, envVars, textVars, retryVars, dataVars, insightVars,
                   qrVars, result, error>>

NextMovies == GetMovies \/ FirstAttempt \/ Retry \/ RaiseForStatus \/ ExtractMovies

SpecMovies == InitMovies /\ [][NextMovies]_vars


\* q is missing or empty
QueryMissing == query = Null \/ query = Str(<<>>)

\* an upstream outcome that is a response with a 5xx status
ServerError(outcome) == outcome.kind = "response" /\ outcome.status >= 500

\* an upstream outcome that is a response with an error status, 4xx or 5xx
ErrorStatus(outcome) == outcome.kind = "response" /\ outcome.status >= 400

\* C22: get_movies is a proxy with exactly one retry. When q is missing or
\* empty the call is answered with an empty movie list and total_results 0 and
\* no upstream request is sent. Otherwise, MOVIE_API_KEY being set, one search
\* request is sent, and a second one is sent exactly when the first response
\* has a status >= 500; no call sends more than two search requests, and when
\* the last response has an error status the call is answered with 502.
C22_OneRetry ==
    /\ search_requests <= 2
    /\ search_requests = 2 => ServerError(upstream[1])
    /\ QueryMissing =>
           /\ search_requests = 0 /\ credits_requests = 0
           /\ pc = "answered" =>
                  /\ http_answer.status = 200
                  /\ http_answer.movies = <<>>
                  /\ http_answer.total_results = 0
    /\ (pc = "answered" /\ ~QueryMissing /\ api_key) =>
           /\ search_requests >= 1
           /\ Len(upstream) = search_requests
           /\ ServerError(upstream[1]) => search_requests = 2
           /\ ErrorStatus(upstream[search_requests]) => http_answer.status = 502

\* a 503 is retried, the retry ends in a 500 and the call is answered with 502
C22_Witness ==
    /\ pc = "answered"
    /\ query = Str(<<"a">>)
    /\ search_requests = 2
    /\ Len(upstream) = 2
    /\ upstream[1].kind = "response" /\ upstream[1].status = 503
    /\ upstream[2].kind = "response" /\ upstream[2].status = 500
    /\ http_answer.status = 502

=============================================================================
